---- MODULE Spec2Model ----
(***************************************************************************)
(* Recommendation engine of letterboxd-recommender                         *)
(* (core/recommender.py, core/nlp.py, core/dataframe.py).                  *)
(*                                                                         *)
(* One call of recommend_for_user / top_feature_contributions is a run of  *)
(* the state machine below.  The call is cut at its metadata lookups: each *)
(* action is the code between two provider calls, the lookup included.     *)
(* Strings are TLA+ strings; a prompt is the sequence of its whitespace-   *)
(* separated words.  Scores are exact rationals, kept as integers scaled   *)
(* by 10 * ScoreScale (weights are tenths).                                *)
(***************************************************************************)
EXTENDS Integers, Sequences, FiniteSets, TLC

(***************************************************************************)
(* Program constants                                                       *)
(***************************************************************************)
GENRE_WEIGHT == 5
DIRECTOR_WEIGHT == 3
DECADE_WEIGHT == 2
PROFILE_SAMPLE_LIMIT == 50
METADATA_FAILURE_FAST_FALLBACK_THRESHOLD == 6

\* Common denominator of every Jaccard value the model can produce (unions of
\* at most 10 elements): similarities are ScoreScale * |a & b| / |a | b|.
ScoreScale == 2 * 2 * 2 * 3 * 3 * 5 * 7

\* Python's None for an optional int (year, k, year_min, year_max).
None == 0 - 1

\* The candidate pool (the module-level list, shortened; tests patch it too).
POPULAR_FILM_SLUGS ==
    << "alien", "heat", "solaris", "the-thing", "amelie", "seven", "oldboy", "parasite" >>

(***************************************************************************)
(* Bounds of the model                                                     *)
(***************************************************************************)
MaxK == 2
MaxCalls == 2

\* The largest top_n of an evaluation (there are three features).
MaxTopN == 3

\* The length of a long watched list (longer than the profile sample).
MaxWatched == 52

\* The number of /api/recommend requests of one behaviour.
MaxRequests == 3

\* The number of requests that pass through the rate limiter.
MaxDispatches == 4

(***************************************************************************)
(* The metadata source: what a successful lookup of a slug returns.        *)
(* title "" stands for None, an empty set for None or [].                  *)
(***************************************************************************)
Meta(s, t, y, g, d, c) ==
    [slug |-> s, title |-> t, year |-> y, genres |-> g, directors |-> d, countries |-> c]

FilmMetadata(slug) ==
    CASE slug = "ran"       -> Meta(slug, "Ran", 1985, {"Drama", "Action"}, {"Kurosawa"}, {"Japan"})
      [] slug = "up"        -> Meta(slug, "Up", 2009, {"Animation"}, {"Docter"}, {"USA"})
      [] slug = "alien"     -> Meta(slug, "Alien", 1979, {"Sci-Fi", "Horror"}, {"Scott"}, {"UK", "USA"})
      [] slug = "heat"      -> Meta(slug, "Heat", 1995, {"Crime", "Action"}, {"Mann"}, {"USA"})
      [] slug = "solaris"   -> Meta(slug, "Solaris", 1972, {"Sci-Fi", "Drama"}, {"Tarkovsky"}, {})
      [] slug = "the-thing" -> Meta(slug, "The Thing", 1982, {"Horror"}, {"Carpenter"}, {"USA"})
      [] slug = "amelie"    -> Meta(slug, "Amelie", 2001, {"Comedy"}, {"Jeunet"}, {"France"})
      [] slug = "seven"     -> Meta(slug, "", None, {}, {}, {})
      [] slug = "oldboy"    -> Meta(slug, "Old Boy", 2003, {"Action", "Drama"}, {"Park"}, {"South Korea"})
      [] slug = "parasite"  -> Meta(slug, "Parasite", 2019, {"Drama"}, {"Bong"}, {"South Korea"})
      [] OTHER              -> Meta(slug, slug, None, {}, {}, {})

(***************************************************************************)
(* Text helpers (str.strip/lower/split on the model's vocabulary)          *)
(***************************************************************************)
\* str.lower() for the words and names the model uses.
Lower(s) ==
    CASE s = "Action" -> "action"       [] s = "Drama" -> "drama"
      [] s = "Sci-Fi" -> "sci-fi"       [] s = "Horror" -> "horror"
      [] s = "Crime" -> "crime"         [] s = "Comedy" -> "comedy"
      [] s = "Animation" -> "animation" [] s = "Japan" -> "japan"
      [] s = "USA" -> "usa"             [] s = "UK" -> "uk"
      [] s = "France" -> "france"       [] s = "South Korea" -> "south korea"
      [] s = "South" -> "south"         [] s = "Korea" -> "korea"
      [] s = "Ran" -> "ran"             [] s = "Up" -> "up"
      [] s = "Alien" -> "alien"         [] s = "Heat" -> "heat"
      [] s = "HEAT" -> "heat"
      [] s = "Solaris" -> "solaris"     [] s = "The Thing" -> "the thing"
      [] s = "The" -> "the"             [] s = "Thing" -> "thing"
      [] s = "Amelie" -> "amelie"       [] s = "Old Boy" -> "old boy"
      [] s = "Old" -> "old"             [] s = "Boy" -> "boy"
      [] s = "Oldboy" -> "oldboy"
      [] s = "Parasite" -> "parasite"   [] s = "Like" -> "like"
      [] s = "More" -> "more"           [] s = "Kurosawa" -> "kurosawa"
      [] s = "Docter" -> "docter"       [] s = "Scott" -> "scott"
      [] s = "Mann" -> "mann"           [] s = "Tarkovsky" -> "tarkovsky"
      [] s = "Carpenter" -> "carpenter" [] s = "Jeunet" -> "jeunet"
      [] s = "Park" -> "park"           [] s = "Bong" -> "bong"
      [] OTHER -> s

\* " ".join(words): the text of a run of words.
JoinWords(ws) ==
    CASE Len(ws) = 0 -> ""
      [] Len(ws) = 1 -> ws[1]
      [] ws = << "The", "Thing" >> -> "The Thing"
      [] ws = << "the", "thing" >> -> "the thing"
      [] ws = << "Old", "Boy" >> -> "Old Boy"
      [] ws = << "old", "boy" >> -> "old boy"
      [] ws = << "South", "Korea" >> -> "South Korea"
      [] ws = << "south", "korea" >> -> "south korea"
      [] OTHER -> "<text>"

\* The characters of a word that starts with a digit.
Chars(w) ==
    CASE w = "0" -> << "0" >>             [] w = "1" -> << "1" >>
      [] w = "2" -> << "2" >>
      [] w = "3" -> << "3" >>             [] w = "02" -> << "0", "2" >>
      [] w = "20" -> << "2", "0" >>       [] w = "21" -> << "2", "1" >>
      [] w = "2," -> << "2", "," >>       [] w = "2x" -> << "2", "x" >>
      [] w = "100" -> << "1", "0", "0" >>
      [] w = "1980" -> << "1", "9", "8", "0" >>
      [] w = "1990" -> << "1", "9", "9", "0" >>
      [] w = "2000" -> << "2", "0", "0", "0" >>
      [] OTHER -> << "a" >>

Digits == { "0", "1", "2", "3", "4", "5", "6", "7", "8", "9" }

DigitValue(c) ==
    CASE c = "0" -> 0 [] c = "1" -> 1 [] c = "2" -> 2 [] c = "3" -> 3 [] c = "4" -> 4
      [] c = "5" -> 5 [] c = "6" -> 6 [] c = "7" -> 7 [] c = "8" -> 8 [] c = "9" -> 9

\* \w of the regex engine: letters, digits, underscore.
IsWordChar(c) == c \in Digits \/ c \in { "a", "x", "_" }

\* Length of the run of digits a word starts with.
RECURSIVE DigitRun(_, _)
DigitRun(cs, i) ==
    IF i <= Len(cs) /\ cs[i] \in Digits THEN 1 + DigitRun(cs, i + 1) ELSE 0

\* int() of the first n characters.
RECURSIVE IntOf(_, _)
IntOf(cs, n) == IF n = 0 THEN 0 ELSE 10 * IntOf(cs, n - 1) + DigitValue(cs[n])

\* A word the pattern (\d{4})\b matches at its start: four digits, then a boundary.
IsYearWord(w) ==
    LET cs == Chars(w) IN
    DigitRun(cs, 1) = 4 /\ (Len(cs) = 4 \/ ~IsWordChar(cs[5]))

YearOf(w) == IntOf(Chars(w), 4)

_normalise_text_token(value) == Lower(value)

_normalise_token(token) == Lower(token)

\* _slugify_title on the titles of the vocabulary: lower case, blanks to hyphens.
_slugify_title(title) ==
    LET txt == _normalise_text_token(title) IN
    CASE txt = "the thing" -> "the-thing"
      [] txt = "old boy" -> "old-boy"
      [] txt = "south korea" -> "south-korea"
      [] OTHER -> txt

(***************************************************************************)
(* Prompt parser (core/nlp.py), on the words of the stripped prompt        *)
(***************************************************************************)
LowerWords(ws) == [i \in 1..Len(ws) |-> Lower(ws[i])]

Min(S) == CHOOSE x \in S : \A y \in S : x <= y

SubWords(ws, a, b) == [i \in 1..(b - a + 1) |-> ws[a + i - 1]]

\* A word made of characters of [a-z\-/,&] only: no digit in it.
IsChunkWord(w) == Chars(w)[1] \notin Digits

\* A word made of letters only.
IsLetterWord(w) == IsChunkWord(w) /\ w \notin { "sci-fi", "the-thing", "old-boy" }

\* _parse_k without the range check on the parsed number.
_parse_k_AnyNumber(prompt) ==
    IF Len(prompt) = 0 THEN None
    ELSE LET cs == Chars(prompt[1])
             d == DigitRun(cs, 1)
         IN  IF d \in {1, 2} /\ (Len(cs) = d \/ ~IsWordChar(cs[d + 1]))
             THEN IntOf(cs, d)
             ELSE None

\* ^\s*(\d{1,2})\b, then 1 <= k <= 20.
_parse_k(prompt) ==
    IF Len(prompt) = 0 THEN None
    ELSE LET cs == Chars(prompt[1])
             d == DigitRun(cs, 1)
         IN  IF d \in {1, 2} /\ (Len(cs) = d \/ ~IsWordChar(cs[d + 1]))
             THEN LET k == IntOf(cs, d) IN IF 1 <= k /\ k <= 20 THEN k ELSE None
             ELSE None

\* The patterns with "before Y" tried ahead of "in Y".
_parse_year_bounds_BeforeFirst(prompt) ==
    LET p == LowerWords(prompt)
        n == Len(p)
        exact(w) == IsYearWord(w) /\ Len(Chars(w)) = 4
        between == { i \in 1..(n - 3) :
                        /\ p[i] \in { "between", "from" }
                        /\ exact(p[i + 1])
                        /\ p[i + 2] \in { "and", "to" }
                        /\ IsYearWord(p[i + 3]) }
        in_year == { i \in 1..(n - 1) : p[i] = "in" /\ IsYearWord(p[i + 1]) }
        before1 == { i \in 1..(n - 1) : p[i] = "before" /\ IsYearWord(p[i + 1]) }
        before2 == { i \in 1..(n - 2) :
                        /\ << p[i], p[i + 1] >> \in { << "earlier", "than" >>, << "prior", "to" >> }
                        /\ IsYearWord(p[i + 2]) }
        after == { i \in 1..(n - 1) : p[i] = "after" /\ IsYearWord(p[i + 1]) }
        since == { i \in 1..(n - 1) : p[i] \in { "since", "from" } /\ IsYearWord(p[i + 1]) }
    IN  IF between # {}
        THEN LET y1 == YearOf(p[Min(between) + 1])
                 y2 == YearOf(p[Min(between) + 3])
             IN  IF y1 <= y2 THEN << y1, y2 >> ELSE << y2, y1 >>
        ELSE IF before1 \cup before2 # {}
        THEN LET i == Min(before1 \cup before2)
                 y == IF i \in before1 THEN YearOf(p[i + 1]) ELSE YearOf(p[i + 2])
             IN  << None, y - 1 >>
        ELSE IF in_year # {}
        THEN LET y == YearOf(p[Min(in_year) + 1]) IN << y, y >>
        ELSE IF after # {}
        THEN << YearOf(p[Min(after) + 1]) + 1, None >>
        ELSE IF since # {}
        THEN << YearOf(p[Min(since) + 1]), None >>
        ELSE << None, None >>

\* The five patterns of _parse_year_bounds, tried in order; the leftmost match
\* of the first pattern that matches decides.
_parse_year_bounds(prompt) ==
    LET p == LowerWords(prompt)
        n == Len(p)
        exact(w) == IsYearWord(w) /\ Len(Chars(w)) = 4
        between == { i \in 1..(n - 3) :
                        /\ p[i] \in { "between", "from" }
                        /\ exact(p[i + 1])
                        /\ p[i + 2] \in { "and", "to" }
                        /\ IsYearWord(p[i + 3]) }
        in_year == { i \in 1..(n - 1) : p[i] = "in" /\ IsYearWord(p[i + 1]) }
        before1 == { i \in 1..(n - 1) : p[i] = "before" /\ IsYearWord(p[i + 1]) }
        before2 == { i \in 1..(n - 2) :
                        /\ << p[i], p[i + 1] >> \in { << "earlier", "than" >>, << "prior", "to" >> }
                        /\ IsYearWord(p[i + 2]) }
        after == { i \in 1..(n - 1) : p[i] = "after" /\ IsYearWord(p[i + 1]) }
        since == { i \in 1..(n - 1) : p[i] \in { "since", "from" } /\ IsYearWord(p[i + 1]) }
    IN  IF between # {}
        THEN LET y1 == YearOf(p[Min(between) + 1])
                 y2 == YearOf(p[Min(between) + 3])
             IN  IF y1 <= y2 THEN << y1, y2 >> ELSE << y2, y1 >>
        ELSE IF in_year # {}
        THEN LET y == YearOf(p[Min(in_year) + 1]) IN << y, y >>
        ELSE IF before1 \cup before2 # {}
        THEN LET i == Min(before1 \cup before2)
                 y == IF i \in before1 THEN YearOf(p[i + 1]) ELSE YearOf(p[i + 2])
             IN  << None, y - 1 >>
        ELSE IF after # {}
        THEN << YearOf(p[Min(after) + 1]) + 1, None >>
        ELSE IF since # {}
        THEN << YearOf(p[Min(since) + 1]), None >>
        ELSE << None, None >>

\* The words after " like " (or a leading "like "), cut at the first clause
\* boundary of (but, with, from, in) that occurs; <<>> stands for None.
_parse_similar_to_title(raw_prompt) ==
    LET lowered == LowerWords(raw_prompt)
        n == Len(lowered)
        inner == { i \in 2..(n - 1) : lowered[i] = "like" }
        idx == IF inner # {} THEN Min(inner)
               ELSE IF n >= 2 /\ lowered[1] = "like" THEN 1 ELSE 0
    IN  IF idx = 0 THEN << >>
        ELSE LET title == SubWords(raw_prompt, idx + 1, n)
                 m == Len(title)
                 at(b) == { j \in 2..(m - 1) : Lower(title[j]) = b }
                 bidx == IF at("but") # {} THEN Min(at("but"))
                         ELSE IF at("with") # {} THEN Min(at("with"))
                         ELSE IF at("from") # {} THEN Min(at("from"))
                         ELSE IF at("in") # {} THEN Min(at("in"))
                         ELSE m + 1
             IN  SubWords(title, 1, bidx - 1)

\* re.split on "and" / "or": the runs of words between the separators.
RECURSIVE SplitParts(_)
SplitParts(ws) ==
    IF ws = << >> THEN << << >> >>
    ELSE LET rest == SplitParts(Tail(ws)) IN
         IF Head(ws) \in { "and", "or" }
         THEN << << >> >> \o rest
         ELSE << << Head(ws) >> \o rest[1] >> \o Tail(rest)

RECURSIVE DropGlue(_)
DropGlue(words) ==
    IF words # << >> /\ Head(words) \in { "more", "but", "from", "only", "just", "please" }
    THEN DropGlue(Tail(words))
    ELSE words

\* Deduplicate while preserving order.
RECURSIVE Dedupe(_, _)
Dedupe(items, seen) ==
    IF items = << >> THEN << >>
    ELSE IF Head(items) \in seen THEN Dedupe(Tail(items), seen)
    ELSE << Head(items) >> \o Dedupe(Tail(items), seen \cup { Head(items) })

_parse_include_genres(prompt) ==
    LET p == LowerWords(prompt)
        n == Len(p)
        \* \b([a-z][a-z\-\s/,&]+?)\s+genre\b : start i, the word "genre" at j
        ends(i) == { j \in (i + 1)..n :
                        p[j] = "genre" /\ \A m \in i..(j - 1) : IsChunkWord(p[m]) }
        starts == { i \in 1..n : ends(i) # {} }
        \* \b(?:from|in)\s+([a-z][a-z\-\s/,&]+)\b : greedy run after from / in
        froms == { i \in 1..(n - 1) : p[i] \in { "from", "in" } /\ IsChunkWord(p[i + 1]) }
        runEnd(i) == Min({ j \in (i + 1)..(n + 1) : j = n + 1 \/ ~IsChunkWord(p[j]) }) - 1
        chunk == IF starts # {}
                 THEN SubWords(p, Min(starts), Min(ends(Min(starts))) - 1)
                 ELSE IF (\E i \in 1..n : p[i] = "genre") /\ froms # {}
                 THEN SubWords(p, Min(froms) + 1, runEnd(Min(froms)))
                 ELSE << >>
        split == SplitParts(DropGlue(chunk))
        parts == SelectSeq([i \in 1..Len(split) |-> JoinWords(split[i])],
                           LAMBDA t : t # "" /\ t \notin { "a", "an", "the", "movies", "films" })
    IN  Dedupe(parts, {})

_parse_include_countries(prompt) ==
    LET p == LowerWords(prompt)
        n == Len(p)
        stop == { "films", "movies", "cinema", "country" }
        \* \bfrom\s+([a-z][a-z\s]+?)\b(?:\s+(?:films|movies|cinema|country)\b|$)
        fromEnds(i) == { j \in (i + 1)..n :
                            /\ \A m \in (i + 1)..j : IsLetterWord(p[m])
                            /\ (j = n \/ p[j + 1] \in stop) }
        froms == { i \in 1..n : p[i] = "from" /\ fromEnds(i) # {} }
        \* \b([a-z][a-z\s]+?)\s+cinema\b
        cinEnds(i) == { j \in (i + 1)..n :
                           p[j] = "cinema" /\ \A m \in i..(j - 1) : IsLetterWord(p[m]) }
        cins == { i \in 1..n : cinEnds(i) # {} }
    IN  IF ~(\E i \in 1..n : p[i] \in { "country", "cinema" }) THEN << >>
        ELSE IF froms # {}
        THEN << JoinWords(SubWords(p, Min(froms) + 1, Min(fromEnds(Min(froms))))) >>
        ELSE IF cins # {}
        THEN << JoinWords(SubWords(p, Min(cins), Min(cinEnds(Min(cins))) - 1)) >>
        ELSE << >>

RefinementConstraints(k, genres, ymin, ymax, countries, title) ==
    [k |-> k, include_genres |-> genres, year_min |-> ymin, year_max |-> ymax,
     include_countries |-> countries, similar_to_title |-> title]

\* parse_refinement_prompt(prompt).constraints; a prompt of None or "" is <<>>.
parse_refinement_prompt(prompt) ==
    IF prompt = << >>
    THEN RefinementConstraints(None, << >>, None, None, << >>, "")
    ELSE RefinementConstraints(
            _parse_k(prompt),
            _parse_include_genres(prompt),
            _parse_year_bounds(prompt)[1],
            _parse_year_bounds(prompt)[2],
            _parse_include_countries(prompt),
            JoinWords(_parse_similar_to_title(prompt)))

(***************************************************************************)
(* Candidate scorer and constraint filter (core/recommender.py)            *)
(***************************************************************************)
\* The decade of a year; the label is this number followed by "s".
_decade_label(year) == (year \div 10) * 10

\* A Jaccard similarity that takes two empty sets to be identical.
_jaccard_EmptyIsOne(a, b) ==
    IF a = {} /\ b = {} THEN ScoreScale
    ELSE (ScoreScale * Cardinality(a \cap b)) \div Cardinality(a \cup b)

\* Jaccard similarity, scaled by ScoreScale.
_jaccard(a, b) ==
    IF a = {} /\ b = {} THEN 0
    ELSE LET union == a \cup b IN
         IF union = {} THEN 0
         ELSE (ScoreScale * Cardinality(a \cap b)) \div Cardinality(union)

_UserProfile(genres, decades, directors) ==
    [genres |-> genres, decades |-> decades, directors |-> directors]

\* The names of the vocabulary in the order sorted() gives them.
SortedNames ==
    << "Action", "Animation", "Bong", "Carpenter", "Comedy", "Crime", "Docter", "Drama",
       "Horror", "Jeunet", "Kurosawa", "Mann", "Park", "Sci-Fi", "Scott", "Tarkovsky" >>

\* sorted(s)[:n] for a set of names or of decades.
SortedPrefix(s, n) ==
    LET names == SelectSeq(SortedNames, LAMBDA x : x \in s) IN
    SubSeq(names, 1, IF Len(names) < n THEN Len(names) ELSE n)

\* A score that leaves the decades out of the weighted sum.
_similarity_score_NoDecades(profile, candidate) ==
    LET cand_genres == candidate.genres
        cand_directors == candidate.directors
        cand_decades == IF candidate.year # None THEN { _decade_label(candidate.year) } ELSE {}
        genre_sim == _jaccard(profile.genres, cand_genres)
        decade_sim == _jaccard(profile.decades, cand_decades)
        director_sim == _jaccard(profile.directors, cand_directors)
        score == (GENRE_WEIGHT * genre_sim) + (DIRECTOR_WEIGHT * director_sim)
    IN  [score |-> score,
         breakdown |->
            [genres |-> genre_sim, directors |-> director_sim, decades |-> decade_sim,
             genres_contribution |-> GENRE_WEIGHT * genre_sim,
             directors_contribution |-> DIRECTOR_WEIGHT * director_sim,
             decades_contribution |-> DECADE_WEIGHT * decade_sim,
             weighted_score |-> score],
         overlaps |->
            [genres |-> SortedPrefix(profile.genres \cap cand_genres, 3),
             decades |-> LET both == profile.decades \cap cand_decades IN
                         IF both = {} THEN << >> ELSE << CHOOSE x \in both : TRUE >>,
             directors |-> SortedPrefix(profile.directors \cap cand_directors, 2)]]

\* (score, breakdown, overlaps) of _similarity_score; the text of "why" is left out.
_similarity_score(profile, candidate) ==
    LET cand_genres == candidate.genres
        cand_directors == candidate.directors
        cand_decades == IF candidate.year # None THEN { _decade_label(candidate.year) } ELSE {}
        genre_sim == _jaccard(profile.genres, cand_genres)
        decade_sim == _jaccard(profile.decades, cand_decades)
        director_sim == _jaccard(profile.directors, cand_directors)
        score == (GENRE_WEIGHT * genre_sim) + (DIRECTOR_WEIGHT * director_sim)
                    + (DECADE_WEIGHT * decade_sim)
    IN  [score |-> score,
         breakdown |->
            [genres |-> genre_sim, directors |-> director_sim, decades |-> decade_sim,
             genres_contribution |-> GENRE_WEIGHT * genre_sim,
             directors_contribution |-> DIRECTOR_WEIGHT * director_sim,
             decades_contribution |-> DECADE_WEIGHT * decade_sim,
             weighted_score |-> score],
         overlaps |->
            [genres |-> SortedPrefix(profile.genres \cap cand_genres, 3),
             decades |-> LET both == profile.decades \cap cand_decades IN
                         IF both = {} THEN << >> ELSE << CHOOSE x \in both : TRUE >>,
             directors |-> SortedPrefix(profile.directors \cap cand_directors, 2)]]

\* An overlap test that looks at the genres only.
_has_any_overlap_GenresOnly(overlaps) == overlaps.genres # << >>

_has_any_overlap(overlaps) ==
    overlaps.genres # << >> \/ overlaps.directors # << >> \/ overlaps.decades # << >>

Range(seq) == { seq[i] : i \in 1..Len(seq) }

\* No reference film (similar_to is None).
NoMeta == Meta("", "", None, {}, {}, {})

\* A filter that lets a film without a year through the year bounds.
_matches_constraints_UnknownYearPasses(meta, constraints, similar_to) ==
    LET norm(S) == { _normalise_text_token(g) : g \in S \ { "" } }
        genre_ok ==
            constraints.include_genres = << >>
            \/ norm(meta.genres) \cap norm(Range(constraints.include_genres)) # {}
        year_ok ==
            (constraints.year_min = None /\ constraints.year_max = None)
            \/ meta.year = None
            \/ /\ meta.year # None
               /\ ~(constraints.year_min # None /\ meta.year < constraints.year_min)
               /\ ~(constraints.year_max # None /\ meta.year > constraints.year_max)
        country_ok ==
            constraints.include_countries = << >>
            \/ norm(meta.countries) \cap norm(Range(constraints.include_countries)) # {}
        ref_decades == IF similar_to.year # None THEN { _decade_label(similar_to.year) } ELSE {}
        cand_decades == IF meta.year # None THEN { _decade_label(meta.year) } ELSE {}
        similar_ok ==
            similar_to = NoMeta
            \/ norm(similar_to.genres) \cap norm(meta.genres) # {}
            \/ norm(similar_to.directors) \cap norm(meta.directors) # {}
            \/ ref_decades \cap cand_decades # {}
    IN  genre_ok /\ year_ok /\ country_ok /\ similar_ok

_matches_constraints(meta, constraints, similar_to) ==
    LET norm(S) == { _normalise_text_token(g) : g \in S \ { "" } }
        genre_ok ==
            constraints.include_genres = << >>
            \/ norm(meta.genres) \cap norm(Range(constraints.include_genres)) # {}
        year_ok ==
            (constraints.year_min = None /\ constraints.year_max = None)
            \/ /\ meta.year # None
               /\ ~(constraints.year_min # None /\ meta.year < constraints.year_min)
               /\ ~(constraints.year_max # None /\ meta.year > constraints.year_max)
        country_ok ==
            constraints.include_countries = << >>
            \/ norm(meta.countries) \cap norm(Range(constraints.include_countries)) # {}
        ref_decades == IF similar_to.year # None THEN { _decade_label(similar_to.year) } ELSE {}
        cand_decades == IF meta.year # None THEN { _decade_label(meta.year) } ELSE {}
        similar_ok ==
            similar_to = NoMeta
            \/ norm(similar_to.genres) \cap norm(meta.genres) # {}
            \/ norm(similar_to.directors) \cap norm(meta.directors) # {}
            \/ ref_decades \cap cand_decades # {}
    IN  genre_ok /\ year_ok /\ country_ok /\ similar_ok

\* RecommendationItem; the display texts (title, blurb, why) are left out, the
\* blurb is kept as the flag that tells a fallback item from a scored one.
RecommendationItem(film_id, year, fallback, score, breakdown, overlaps) ==
    [film_id |-> film_id, year |-> year, fallback |-> fallback, score |-> score,
     score_breakdown |-> breakdown, overlaps |-> overlaps]

_fallback_recommendation(slug) ==
    RecommendationItem(slug, None, TRUE, 0,
        [genres |-> 0, directors |-> 0, decades |-> 0, genres_contribution |-> 0,
         directors_contribution |-> 0, decades_contribution |-> 0, weighted_score |-> 0],
        [genres |-> << >>, decades |-> << >>, directors |-> << >>])

\* One entry of the local list "candidates": (idx, score, has_overlap, item).
Candidate(idx, score, has, item) == [idx |-> idx, score |-> score, has |-> has, item |-> item]

\* The sort key with the tie-break turned round: (-score, -idx).
KeyBefore_TiesReversed(a, b) == a.score > b.score \/ (a.score = b.score /\ a.idx > b.idx)

\* The sort key (-score, idx): a comes before b.
KeyBefore(a, b) == a.score > b.score \/ (a.score = b.score /\ a.idx < b.idx)

\* list.sort(key=...) is a stable sort: insert each entry before the first
\* entry it comes before.
RECURSIVE InsertSorted(_, _)
InsertSorted(sorted, x) ==
    IF sorted = << >> THEN << x >>
    ELSE IF KeyBefore(x, Head(sorted)) THEN << x >> \o sorted
    ELSE << Head(sorted) >> \o InsertSorted(Tail(sorted), x)

RECURSIVE SortCandidates(_)
SortCandidates(cands) ==
    IF cands = << >> THEN << >>
    ELSE InsertSorted(SortCandidates(SubSeq(cands, 1, Len(cands) - 1)), cands[Len(cands)])

Prefix(seq, n) == SubSeq(seq, 1, IF Len(seq) < n THEN Len(seq) ELSE n)

Items(cands) == [i \in 1..Len(cands) |-> cands[i].item]

\* The selection without the fill-up from the candidates that have no overlap.
ChooseRecommendations_OverlapOnly(cands, profile, k) ==
    LET sorted == SortCandidates(cands)
        profile_is_empty ==
            profile.genres = {} /\ profile.decades = {} /\ profile.directors = {}
        overlap_first == Items(SelectSeq(sorted, LAMBDA t : t.has))
    IN  IF profile_is_empty THEN Items(Prefix(sorted, k)) ELSE Prefix(overlap_first, k)

\* The selection with the empty-profile slice off by one: candidates[1:k + 1].
ChooseRecommendations_SliceOffByOne(cands, profile, k) ==
    LET sorted == SortCandidates(cands)
        profile_is_empty ==
            profile.genres = {} /\ profile.decades = {} /\ profile.directors = {}
        overlap_first == Items(SelectSeq(sorted, LAMBDA t : t.has))
        fallback == overlap_first \o Items(SelectSeq(sorted, LAMBDA t : ~t.has))
    IN  IF profile_is_empty
        THEN (IF sorted = << >> THEN << >> ELSE Items(Prefix(Tail(sorted), k)))
        ELSE IF Len(overlap_first) >= k THEN Prefix(overlap_first, k)
        ELSE Prefix(fallback, k)

\* The selection with the fill-up put in front of the overlap candidates.
ChooseRecommendations_FillFirst(cands, profile, k) ==
    LET sorted == SortCandidates(cands)
        profile_is_empty ==
            profile.genres = {} /\ profile.decades = {} /\ profile.directors = {}
        overlap_first == Items(SelectSeq(sorted, LAMBDA t : t.has))
        fallback == Items(SelectSeq(sorted, LAMBDA t : ~t.has)) \o overlap_first
    IN  IF profile_is_empty THEN Items(Prefix(sorted, k))
        ELSE IF Len(overlap_first) >= k THEN Prefix(overlap_first, k)
        ELSE Prefix(fallback, k)

\* Lines 533-549: sort, then branch on the emptiness of the profile.
ChooseRecommendations(cands, profile, k) ==
    LET sorted == SortCandidates(cands)
        profile_is_empty ==
            profile.genres = {} /\ profile.decades = {} /\ profile.directors = {}
        overlap_first == Items(SelectSeq(sorted, LAMBDA t : t.has))
        fallback == overlap_first \o Items(SelectSeq(sorted, LAMBDA t : ~t.has))
    IN  IF profile_is_empty THEN Items(Prefix(sorted, k))
        ELSE IF Len(overlap_first) >= k THEN Prefix(overlap_first, k)
        ELSE Prefix(fallback, k)

\* The three FeatureContribution entries of top_feature_contributions, sorted
\* by (-contribution, feature) and cut to top_n.
FeatureRank(f) == CASE f = "decades" -> 1 [] f = "directors" -> 2 [] f = "genres" -> 3

FeatureContribution(feature, similarity, weight, contribution, overlaps) ==
    [feature |-> feature, similarity |-> similarity, weight |-> weight,
     contribution |-> contribution, overlaps |-> overlaps]

\* The order with ties broken by feature name descending.
ContributionBefore_NameDescending(a, b) ==
    a.contribution > b.contribution
    \/ (a.contribution = b.contribution /\ FeatureRank(a.feature) > FeatureRank(b.feature))

ContributionBefore(a, b) ==
    a.contribution > b.contribution
    \/ (a.contribution = b.contribution /\ FeatureRank(a.feature) < FeatureRank(b.feature))

RECURSIVE InsertContribution(_, _)
InsertContribution(sorted, x) ==
    IF sorted = << >> THEN << x >>
    ELSE IF ContributionBefore(x, Head(sorted)) THEN << x >> \o sorted
    ELSE << Head(sorted) >> \o InsertContribution(Tail(sorted), x)

TopContributions(profile, candidate, top_n) ==
    LET s == _similarity_score(profile, candidate)
        g == FeatureContribution("genres", s.breakdown.genres, GENRE_WEIGHT,
                                 s.breakdown.genres_contribution, s.overlaps.genres)
        d == FeatureContribution("directors", s.breakdown.directors, DIRECTOR_WEIGHT,
                                 s.breakdown.directors_contribution, s.overlaps.directors)
        c == FeatureContribution("decades", s.breakdown.decades, DECADE_WEIGHT,
                                 s.breakdown.decades_contribution, s.overlaps.decades)
        sorted == InsertContribution(InsertContribution(InsertContribution(<< >>, g), d), c)
    IN  [score |-> s.score, top_features |-> Prefix(sorted, top_n)]

(***************************************************************************)
(* State                                                                   *)
(***************************************************************************)
VARIABLES
    call,               \* the call: [op, username, k, prompt, film_id, top_n]
    lists,              \* the user's stored data: [ingested, watched, watchlist]
    exclude_slugs,      \* the caller's set of slugs to exclude
    pool,               \* the candidate pool the call iterates
    stable,             \* TRUE: the provider answers a slug the same way every time
    answers,            \* what the stable provider answered so far, per slug
    pc,                 \* where the call is
    k,                  \* the local k, after the prompt's override
    constraints,        \* parsed.constraints
    exclude,            \* the local set "exclude"
    search_space,       \* candidates of _resolve_similar_to_slug
    ri,                 \* index of its title loop (1-based)
    resolved,           \* its result; "" is None
    similar_meta,       \* metadata of the reference; NoMeta is None
    profile,            \* genres, decades, directors collected by _build_user_profile
    wi,                 \* index of its loop over the sample (1-based)
    profile_failures,   \* its metadata_failures
    candidates,         \* the local list "candidates"
    idx,                \* index of the loop over the pool (0-based)
    metadata_failures,  \* metadata_failures of the candidate pass
    failed_idx,         \* the pool indexes whose lookup failed in this pass, in order
    calls,              \* provider invocations of this call, in order
    outcome,            \* "none", "returned" or the exception raised
    result,             \* the list recommend_for_user returned
    evaluation,         \* what top_feature_contributions returned
    call_no,            \* 1 for the first call, 2 for its repetition
    prev_result,        \* the list the previous call returned
    sessions,           \* the table "sessions" of the store's database, per session id
    clock,              \* time.time()
    requests,           \* the /api/recommend requests: where each is, and what it holds
    current,            \* the request whose recommend_for_user call is running; 0: none
    created,            \* per session id, how often get_or_create inserted its row
    restarts,           \* how often the application was recreated on the database
    concurrent,         \* TRUE: requests may overlap; FALSE: one after another
    windows,            \* SlidingWindowRateLimiter._windows: per key, the deque of hits
    dispatches,         \* the calls of RateLimitMiddleware.dispatch: where each is
    admitted,           \* per key, the timestamps of the requests allow() admitted
    fn,                 \* the function applied on its own: its name,
    args,               \* its arguments,
    ret                 \* and what it returned

inputs == << call, lists, exclude_slugs, pool, stable >>

locals == << k, constraints, exclude, search_space, ri, resolved, similar_meta, profile,
             wi, profile_failures, candidates, idx, metadata_failures, failed_idx >>

\* The state of the API layer around the core.
api == << sessions, clock, requests, current, created, restarts, concurrent >>

\* The rate limiter and the requests passing through it.
rate == << windows, dispatches, admitted >>

\* A function of the core applied on its own.
unit == << fn, args, ret >>

\* What a call of the core leaves alone.
outer == << api, rate, unit >>

vars == << call, lists, exclude_slugs, pool, stable, answers, pc, k, constraints, exclude,
           search_space, ri, resolved, similar_meta, profile, wi, profile_failures,
           candidates, idx, metadata_failures, failed_idx, calls, outcome, result,
           evaluation, call_no, prev_result, outer >>

(***************************************************************************)
(* Inputs                                                                  *)
(***************************************************************************)
Prompts ==
    { << >>,
      << "1", "more" >>,
      << "20", "more" >>,
      << "0", "more" >>,
      << "21", "more" >>,
      << "100", "more" >>,
      << "more", "from", "action", "genre" >>,
      << "3", "more", "before", "1990" >>,
      << "20", "like", "Old", "Boy" >>,
      << "more", "like", "The", "Thing" >>,
      << "more", "like", "HEAT" >> }

WatchedLists == { << >>, << "ran" >>, << "heat", "up" >> }

WatchLists == { << >>, << "solaris", "up" >> }

ExcludeSets == { {}, { "oldboy" } }

Pools == { POPULAR_FILM_SLUGS, << "the-thing", "amelie", "heat" >> }

FilmIds == { "", "heat", "seven" }

AllSlugs == Range(POPULAR_FILM_SLUGS) \cup { "ran", "up" }

NoConstraints == RefinementConstraints(None, << >>, None, None, << >>, "")

EmptyProfile == _UserProfile({}, {}, {})

NoEvaluation == [score |-> 0, top_features |-> << >>]

LocalsInit ==
    /\ k = 0
    /\ constraints = NoConstraints
    /\ exclude = {}
    /\ search_space = << >>
    /\ ri = 0
    /\ resolved = ""
    /\ similar_meta = NoMeta
    /\ profile = EmptyProfile
    /\ wi = 0
    /\ profile_failures = 0
    /\ candidates = << >>
    /\ idx = 0
    /\ metadata_failures = 0
    /\ failed_idx = << >>

\* The long pool is run with one stored history per prompt, the short pool
\* with every combination; an evaluation reads neither pool nor exclusions.
InScope ==
    /\ call.op = "evaluate" => exclude_slugs = {} /\ pool = POPULAR_FILM_SLUGS
    /\ (call.op = "recommend" /\ pool = POPULAR_FILM_SLUGS /\ call.prompt # << >>)
          => /\ lists.watched = << "ran" >>
             /\ lists.watchlist = << >>
             /\ exclude_slugs = {} \/ call.prompt = << "20", "more" >>

Inputs ==
    /\ call \in [op : { "recommend" }, username : { "", "alice" }, k : 0..MaxK,
                 prompt : Prompts, film_id : { "" }, top_n : { 0 }]
            \cup [op : { "evaluate" }, username : { "", "alice" }, k : { 0 },
                  prompt : { << >> }, film_id : FilmIds, top_n : 0..MaxTopN]
    /\ lists \in [ingested : { TRUE }, watched : WatchedLists, watchlist : WatchLists]
            \cup { [ingested |-> FALSE, watched |-> << >>, watchlist |-> << >>] }
    /\ exclude_slugs \in ExcludeSets
    /\ pool \in Pools
    /\ stable \in BOOLEAN
    /\ InScope

CallStart ==
    /\ answers = [s \in AllSlugs |-> "unknown"]
    /\ pc = "start"
    /\ LocalsInit
    /\ calls = << >>
    /\ outcome = "none"
    /\ result = << >>
    /\ evaluation = NoEvaluation
    /\ call_no = 1
    /\ prev_result = << >>

\* The session ids of the model, and a row that is not in the table.
SessionIds == { "s1", "s2", "s3" }

NoRow == [recommended_slugs_json |-> << "-" >>, updated_at |-> 0 - 1, rowid |-> 0]

\* A request that has not arrived yet.
NoRequest ==
    [pc |-> "idle", session_id |-> "", state |-> {}, recs |-> << >>, status |-> 0,
     epoch |-> 0, after |-> {}]

\* The API layer at rest: an empty database, no request.
ApiIdle ==
    /\ sessions = [s \in SessionIds |-> NoRow]
    /\ clock = 0
    /\ requests = [r \in 1..MaxRequests |-> NoRequest]
    /\ current = 0
    /\ created = [s \in SessionIds |-> 0]
    /\ restarts = 0
    /\ concurrent = FALSE

\* The keys of the limiter: one client, the two buckets.
Keys == { "global", "ingest" }

NoDispatch == [pc |-> "idle", path |-> "", key |-> "", now |-> 0, status |-> 0]

\* A new limiter, no request.
RateIdle ==
    /\ windows = [key \in Keys |-> << >>]
    /\ dispatches = [d \in 1..MaxDispatches |-> NoDispatch]
    /\ admitted = [key \in Keys |-> << >>]

\* No function applied.
UnitIdle ==
    /\ fn = "none"
    /\ args = << >>
    /\ ret = << >>

OuterIdle == ApiIdle /\ RateIdle /\ UnitIdle

Init == Inputs /\ CallStart /\ OuterIdle

(***************************************************************************)
(* The metadata provider                                                   *)
(***************************************************************************)
\* What a lookup of slug can do now: succeed or raise FilmMetadataError.
Outcomes(slug) ==
    IF stable /\ answers[slug] # "unknown" THEN { answers[slug] } ELSE { "ok", "fail" }

Lookup(slug, phase, i, o) ==
    /\ o \in Outcomes(slug)
    /\ answers' = IF stable THEN [answers EXCEPT ![slug] = o] ELSE answers
    /\ calls' = Append(calls, [slug |-> slug, phase |-> phase, idx |-> i])

Raise(e) ==
    /\ pc' = "raised"
    /\ outcome' = e

\* The whole watched list as the sample.
Sample_NoLimit == lists.watched

\* watched_slugs[:PROFILE_SAMPLE_LIMIT]
Sample == Prefix(lists.watched, PROFILE_SAMPLE_LIMIT)

(***************************************************************************)
(* recommend_for_user                                                      *)
(***************************************************************************)
\* list(dict.fromkeys([*watched, *watchlist, *POPULAR_FILM_SLUGS]))
SearchSpace == Dedupe(lists.watched \o lists.watchlist \o pool, {})

\* The validation without the check of k.
InvalidArguments_NoKCheck(c) == c.username = ""

\* Lines 438-442 of recommend_for_user: the arguments are rejected.
InvalidArguments(c) == c.username = "" \/ c.k < 1

\* Lines 262-269 of top_feature_contributions.
InvalidEvaluateArguments(c) == c.username = "" \/ c.film_id = "" \/ c.top_n < 1

\* Lines 438-463, up to the first metadata lookup: validation, the prompt, the
\* stored lists, the exclusion set and the direct slug match of the reference.
RecommendBegin ==
    /\ pc = "start"
    /\ call.op = "recommend"
    /\ UNCHANGED << outer, inputs, answers, calls, result, evaluation, call_no, prev_result >>
    /\ IF InvalidArguments(call)
       THEN Raise("RecommendationError") /\ UNCHANGED locals
       ELSE LET parsed == parse_refinement_prompt(call.prompt) IN
            /\ constraints' = parsed
            /\ k' = IF parsed.k # None THEN parsed.k ELSE call.k
            /\ UNCHANGED << similar_meta, profile, profile_failures, candidates, idx,
                            metadata_failures, failed_idx >>
            /\ IF ~lists.ingested
               THEN /\ Raise("FileNotFoundError")
                    /\ UNCHANGED << exclude, search_space, ri, resolved, wi >>
               ELSE /\ outcome' = outcome
                    /\ exclude' = Range(lists.watched) \cup Range(lists.watchlist)
                                    \cup exclude_slugs
                    /\ IF parsed.similar_to_title = ""
                       THEN /\ pc' = "profile"
                            /\ wi' = 1
                            /\ UNCHANGED << search_space, ri, resolved >>
                       ELSE LET token == _normalise_text_token(parsed.similar_to_title)
                                direct == { i \in 1..Len(SearchSpace) :
                                              Lower(SearchSpace[i]) = token }
                            IN  /\ search_space' = SearchSpace
                                /\ wi' = wi
                                /\ IF direct # {}
                                   THEN /\ resolved' = SearchSpace[Min(direct)]
                                        /\ pc' = "ref"
                                        /\ ri' = ri
                                   ELSE /\ resolved' = resolved
                                        /\ pc' = "resolve"
                                        /\ ri' = 1

\* Lines 341-348: one turn of the title loop of _resolve_similar_to_slug.
ResolveByTitle ==
    /\ pc = "resolve"
    /\ ri <= Len(search_space)
    /\ \E o \in { "ok", "fail" } :
        /\ Lookup(search_space[ri], "resolve", ri - 1, o)
        /\ LET meta == FilmMetadata(search_space[ri])
               wanted == _normalise_text_token(constraints.similar_to_title)
           IN  IF o = "ok" /\ meta.title # "" /\ _normalise_text_token(meta.title) = wanted
               THEN /\ resolved' = search_space[ri]
                    /\ pc' = "ref"
                    /\ ri' = ri
               ELSE /\ ri' = ri + 1
                    /\ UNCHANGED << resolved, pc >>
    /\ UNCHANGED << outer, inputs, k, constraints, exclude, search_space, similar_meta, profile, wi,
                    profile_failures, candidates, idx, metadata_failures, failed_idx, outcome, result,
                    evaluation, call_no, prev_result >>

\* A resolution that gives up after the title loop.
ResolveBySlug_GivesUp ==
    /\ pc = "resolve"
    /\ ri > Len(search_space)
    /\ resolved' = ""
    /\ pc' = "profile"
    /\ wi' = 1
    /\ UNCHANGED << outer, inputs, answers, k, constraints, exclude, search_space, ri, similar_meta,
                    profile, profile_failures, candidates, idx, metadata_failures, failed_idx, calls,
                    outcome, result, evaluation, call_no, prev_result >>

\* Lines 350-355: the last attempt, the slugified title.
ResolveBySlug ==
    /\ pc = "resolve"
    /\ ri > Len(search_space)
    /\ LET slugified == _slugify_title(constraints.similar_to_title) IN
       IF slugified \in Range(search_space)
       THEN /\ resolved' = slugified
            /\ pc' = "ref"
            /\ wi' = wi
       ELSE /\ resolved' = ""
            /\ pc' = "profile"
            /\ wi' = 1
    /\ UNCHANGED << outer, inputs, answers, k, constraints, exclude, search_space, ri, similar_meta,
                    profile, profile_failures, candidates, idx, metadata_failures, failed_idx, calls,
                    outcome, result, evaluation, call_no, prev_result >>

\* The lookup of the reference without its try/except.
ReferenceLookup_Uncaught ==
    /\ pc = "ref"
    /\ \E o \in { "ok", "fail" } :
        /\ Lookup(resolved, "ref", 0 - 1, o)
        /\ IF o = "ok"
           THEN /\ similar_meta' = FilmMetadata(resolved)
                /\ exclude' = exclude \cup { resolved }
                /\ pc' = "profile"
                /\ wi' = 1
                /\ outcome' = outcome
           ELSE /\ Raise("FilmMetadataError")
                /\ UNCHANGED << similar_meta, exclude, wi >>
    /\ UNCHANGED << outer, inputs, k, constraints, search_space, ri, resolved, profile,
                    profile_failures, candidates, idx, metadata_failures, failed_idx,
                    result, evaluation, call_no, prev_result >>

\* The lookup of the reference that adds the resolved film to the caller's set.
ReferenceLookup_AddsToCallerSet ==
    /\ pc = "ref"
    /\ \E o \in { "ok", "fail" } :
        /\ Lookup(resolved, "ref", 0 - 1, o)
        /\ similar_meta' = IF o = "ok" THEN FilmMetadata(resolved) ELSE NoMeta
        /\ exclude' = IF o = "ok" THEN exclude \cup { resolved } ELSE exclude
        /\ exclude_slugs' = IF o = "ok" THEN exclude_slugs \cup { resolved }
                            ELSE exclude_slugs
    /\ pc' = "profile"
    /\ wi' = 1
    /\ UNCHANGED << outer, call, lists, pool, stable, k, constraints, search_space, ri,
                    resolved, profile, profile_failures, candidates, idx, metadata_failures,
                    failed_idx, outcome, result, evaluation, call_no, prev_result >>

\* The lookup of the reference that excludes the resolved film also when the
\* lookup failed.
ReferenceLookup_ExcludesOnFailure ==
    /\ pc = "ref"
    /\ \E o \in { "ok", "fail" } :
        /\ Lookup(resolved, "ref", 0 - 1, o)
        /\ similar_meta' = IF o = "ok" THEN FilmMetadata(resolved) ELSE NoMeta
        /\ exclude' = exclude \cup { resolved }
    /\ pc' = "profile"
    /\ wi' = 1
    /\ UNCHANGED << outer, inputs, k, constraints, search_space, ri, resolved, profile,
                    profile_failures, candidates, idx, metadata_failures, failed_idx, outcome, result,
                    evaluation, call_no, prev_result >>

\* The lookup of the reference that leaves the exclusion set as it is.
ReferenceLookup_NotExcluded ==
    /\ pc = "ref"
    /\ \E o \in { "ok", "fail" } :
        /\ Lookup(resolved, "ref", 0 - 1, o)
        /\ similar_meta' = IF o = "ok" THEN FilmMetadata(resolved) ELSE NoMeta
        /\ exclude' = exclude
    /\ pc' = "profile"
    /\ wi' = 1
    /\ UNCHANGED << outer, inputs, k, constraints, search_space, ri, resolved, profile,
                    profile_failures, candidates, idx, metadata_failures, failed_idx, outcome, result,
                    evaluation, call_no, prev_result >>

\* Lines 464-469: the lookup of the resolved reference.
ReferenceLookup ==
    /\ pc = "ref"
    /\ \E o \in { "ok", "fail" } :
        /\ Lookup(resolved, "ref", 0 - 1, o)
        /\ IF o = "ok"
           THEN /\ similar_meta' = FilmMetadata(resolved)
                /\ exclude' = exclude \cup { resolved }
           ELSE /\ similar_meta' = NoMeta
                /\ exclude' = exclude
    /\ pc' = "profile"
    /\ wi' = 1
    /\ UNCHANGED << outer, inputs, k, constraints, search_space, ri, resolved, profile,
                    profile_failures, candidates, idx, metadata_failures, failed_idx, outcome, result,
                    evaluation, call_no, prev_result >>

\* Lines 151-163: one turn of the loop of _build_user_profile.
ProfileStep ==
    /\ pc = "profile"
    /\ wi <= Len(Sample)
    /\ profile_failures < METADATA_FAILURE_FAST_FALLBACK_THRESHOLD
    /\ \E o \in { "ok", "fail" } :
        /\ Lookup(Sample[wi], "profile", wi - 1, o)
        /\ IF o = "fail"
           THEN /\ profile_failures' = profile_failures + 1
                /\ profile' = profile
           ELSE LET meta == FilmMetadata(Sample[wi]) IN
                /\ profile_failures' = profile_failures
                /\ profile' = _UserProfile(
                       profile.genres \cup meta.genres,
                       IF meta.year # None
                       THEN profile.decades \cup { _decade_label(meta.year) }
                       ELSE profile.decades,
                       profile.directors \cup meta.directors)
    /\ wi' = wi + 1
    /\ UNCHANGED << outer, inputs, pc, k, constraints, exclude, search_space, ri, resolved,
                    similar_meta, candidates, idx, metadata_failures, failed_idx, outcome, result,
                    evaluation, call_no, prev_result >>

\* Lines 165-169: the loop has ended (sample exhausted, or break at the threshold).
ProfileDone ==
    /\ pc = "profile"
    /\ wi > Len(Sample) \/ profile_failures >= METADATA_FAILURE_FAST_FALLBACK_THRESHOLD
    /\ pc' = IF call.op = "recommend" THEN "pool" ELSE "target"
    /\ UNCHANGED << outer, inputs, answers, locals, calls, outcome, result, evaluation, call_no,
                    prev_result >>

\* The inner loop without its test "rem_slug in exclude".
RECURSIVE RemainingFallbacks_NoExclusionCheck(_, _, _)
RemainingFallbacks_NoExclusionCheck(slugs, j, excl) ==
    IF j >= Len(slugs) THEN << >>
    ELSE << Candidate(j, 0, FALSE, _fallback_recommendation(slugs[j + 1])) >>
         \o RemainingFallbacks_NoExclusionCheck(slugs, j + 1, excl)

\* The break without the inner loop: nothing is emitted for the rest of the pool.
RemainingFallbacks_None(slugs, j, excl) == << >>

\* The fallback entries for the pool entries after index i (lines 498-502).
RECURSIVE RemainingFallbacks(_, _, _)
RemainingFallbacks(slugs, j, excl) ==
    IF j >= Len(slugs) THEN << >>
    ELSE (IF slugs[j + 1] \in excl THEN << >>
          ELSE << Candidate(j, 0, FALSE, _fallback_recommendation(slugs[j + 1])) >>)
         \o RemainingFallbacks(slugs, j + 1, excl)

\* A loop that keeps a film that fails the filters as a fallback candidate.
PoolStep_FilteredAsFallback ==
    /\ pc = "pool"
    /\ idx < Len(pool)
    /\ LET slug == pool[idx + 1] IN
       IF slug \in exclude
       THEN /\ idx' = idx + 1
            /\ UNCHANGED << answers, calls, candidates, metadata_failures, failed_idx >>
       ELSE \E o \in { "ok", "fail" } :
            /\ Lookup(slug, "pool", idx, o)
            /\ IF o = "fail"
               THEN /\ metadata_failures' = metadata_failures + 1
                    /\ failed_idx' = Append(failed_idx, idx)
                    /\ IF metadata_failures + 1 >= METADATA_FAILURE_FAST_FALLBACK_THRESHOLD
                       THEN /\ candidates' =
                                  Append(candidates,
                                         Candidate(idx, 0, FALSE, _fallback_recommendation(slug)))
                                  \o RemainingFallbacks(pool, idx + 1, exclude)
                            /\ idx' = Len(pool)
                       ELSE /\ candidates' =
                                  Append(candidates,
                                         Candidate(idx, 0, FALSE, _fallback_recommendation(slug)))
                            /\ idx' = idx + 1
               ELSE LET meta == FilmMetadata(slug)
                        s == _similarity_score(profile, meta)
                    IN  /\ metadata_failures' = metadata_failures
                        /\ failed_idx' = failed_idx
                        /\ idx' = idx + 1
                        /\ candidates' =
                              IF ~_matches_constraints(meta, constraints, similar_meta)
                              THEN Append(candidates,
                                          Candidate(idx, 0, FALSE,
                                                    _fallback_recommendation(slug)))
                              ELSE Append(candidates,
                                          Candidate(idx, s.score, _has_any_overlap(s.overlaps),
                                                    RecommendationItem(slug, meta.year, FALSE,
                                                        s.score, s.breakdown, s.overlaps)))
    /\ UNCHANGED << outer, inputs, pc, k, constraints, exclude, search_space, ri, resolved,
                    similar_meta, profile, wi, profile_failures, outcome, result, evaluation,
                    call_no, prev_result >>

\* A loop that goes on after the remaining entries were added as fallbacks.
PoolStep_NoBreak ==
    /\ pc = "pool"
    /\ idx < Len(pool)
    /\ LET slug == pool[idx + 1] IN
       IF slug \in exclude
       THEN /\ idx' = idx + 1
            /\ UNCHANGED << answers, calls, candidates, metadata_failures, failed_idx >>
       ELSE \E o \in { "ok", "fail" } :
            /\ Lookup(slug, "pool", idx, o)
            /\ IF o = "fail"
               THEN /\ metadata_failures' = metadata_failures + 1
                    /\ failed_idx' = Append(failed_idx, idx)
                    /\ IF metadata_failures + 1 >= METADATA_FAILURE_FAST_FALLBACK_THRESHOLD
                       THEN /\ candidates' =
                                  Append(candidates,
                                         Candidate(idx, 0, FALSE, _fallback_recommendation(slug)))
                                  \o RemainingFallbacks(pool, idx + 1, exclude)
                            /\ idx' = idx + 1
                       ELSE /\ candidates' =
                                  Append(candidates,
                                         Candidate(idx, 0, FALSE, _fallback_recommendation(slug)))
                            /\ idx' = idx + 1
               ELSE LET meta == FilmMetadata(slug)
                        s == _similarity_score(profile, meta)
                    IN  /\ metadata_failures' = metadata_failures
                        /\ failed_idx' = failed_idx
                        /\ idx' = idx + 1
                        /\ candidates' =
                              IF ~_matches_constraints(meta, constraints, similar_meta)
                              THEN candidates
                              ELSE Append(candidates,
                                          Candidate(idx, s.score, _has_any_overlap(s.overlaps),
                                                    RecommendationItem(slug, meta.year, FALSE,
                                                        s.score, s.breakdown, s.overlaps)))
    /\ UNCHANGED << outer, inputs, pc, k, constraints, exclude, search_space, ri, resolved,
                    similar_meta, profile, wi, profile_failures, outcome, result, evaluation,
                    call_no, prev_result >>

\* Lines 480-531: one turn of the loop over the pool.
PoolStep ==
    /\ pc = "pool"
    /\ idx < Len(pool)
    /\ LET slug == pool[idx + 1] IN
       IF slug \in exclude
       THEN /\ idx' = idx + 1
            /\ UNCHANGED << answers, calls, candidates, metadata_failures, failed_idx >>
       ELSE \E o \in { "ok", "fail" } :
            /\ Lookup(slug, "pool", idx, o)
            /\ IF o = "fail"
               THEN /\ metadata_failures' = metadata_failures + 1
                    /\ failed_idx' = Append(failed_idx, idx)
                    /\ IF metadata_failures + 1 >= METADATA_FAILURE_FAST_FALLBACK_THRESHOLD
                       THEN /\ candidates' =
                                  Append(candidates,
                                         Candidate(idx, 0, FALSE, _fallback_recommendation(slug)))
                                  \o RemainingFallbacks(pool, idx + 1, exclude)
                            /\ idx' = Len(pool)
                       ELSE /\ candidates' =
                                  Append(candidates,
                                         Candidate(idx, 0, FALSE, _fallback_recommendation(slug)))
                            /\ idx' = idx + 1
               ELSE LET meta == FilmMetadata(slug)
                        s == _similarity_score(profile, meta)
                    IN  /\ metadata_failures' = metadata_failures
                        /\ failed_idx' = failed_idx
                        /\ idx' = idx + 1
                        /\ candidates' =
                              IF ~_matches_constraints(meta, constraints, similar_meta)
                              THEN candidates
                              ELSE Append(candidates,
                                          Candidate(idx, s.score, _has_any_overlap(s.overlaps),
                                                    RecommendationItem(slug, meta.year, FALSE,
                                                        s.score, s.breakdown, s.overlaps)))
    /\ UNCHANGED << outer, inputs, pc, k, constraints, exclude, search_space, ri, resolved,
                    similar_meta, profile, wi, profile_failures, outcome, result, evaluation,
                    call_no, prev_result >>

\* The return that also adds what it returned to the caller's exclusion set.
RecommendReturn_Remembers ==
    /\ pc = "pool"
    /\ idx >= Len(pool)
    /\ result' = ChooseRecommendations(candidates, profile, k)
    /\ exclude_slugs' = exclude_slugs
            \cup { ChooseRecommendations(candidates, profile, k)[i].film_id :
                        i \in 1..Len(ChooseRecommendations(candidates, profile, k)) }
    /\ outcome' = "returned"
    /\ pc' = "done"
    /\ UNCHANGED << outer, call, lists, pool, stable, answers, locals, calls, evaluation,
                    call_no,
                    prev_result >>

\* Lines 533-549: the loop has ended; sort, choose, return.
RecommendReturn ==
    /\ pc = "pool"
    /\ idx >= Len(pool)
    /\ result' = ChooseRecommendations(candidates, profile, k)
    /\ outcome' = "returned"
    /\ pc' = "done"
    /\ UNCHANGED << outer, inputs, answers, locals, calls, evaluation, call_no, prev_result >>

\* The caller repeats the call: same arguments, same stored lists, same provider.
RecommendAgain ==
    /\ pc = "done"
    /\ call.op = "recommend"
    /\ stable
    /\ call_no < MaxCalls
    /\ call_no' = call_no + 1
    /\ prev_result' = result
    /\ pc' = "start"
    /\ k' = 0
    /\ constraints' = NoConstraints
    /\ exclude' = {}
    /\ search_space' = << >>
    /\ ri' = 0
    /\ resolved' = ""
    /\ similar_meta' = NoMeta
    /\ profile' = EmptyProfile
    /\ wi' = 0
    /\ profile_failures' = 0
    /\ candidates' = << >>
    /\ idx' = 0
    /\ metadata_failures' = 0
    /\ failed_idx' = << >>
    /\ calls' = << >>
    /\ outcome' = "none"
    /\ result' = << >>
    /\ UNCHANGED << outer, inputs, answers, evaluation >>

(***************************************************************************)
(* top_feature_contributions                                               *)
(***************************************************************************)
\* Lines 262-272: validation and the stored lists.
EvaluateBegin ==
    /\ pc = "start"
    /\ call.op = "evaluate"
    /\ IF InvalidEvaluateArguments(call)
       THEN Raise("RecommendationError") /\ wi' = wi
       ELSE IF ~lists.ingested
       THEN Raise("FileNotFoundError") /\ wi' = wi
       ELSE pc' = "profile" /\ wi' = 1 /\ outcome' = outcome
    /\ UNCHANGED << outer, inputs, answers, k, constraints, exclude, search_space, ri, resolved,
                    similar_meta, profile, profile_failures, candidates, idx,
                    metadata_failures, failed_idx, calls, result, evaluation, call_no, prev_result >>

\* An evaluation that answers a failed lookup of the target with a zero score.
EvaluateTarget_FallsBack ==
    /\ pc = "target"
    /\ \E o \in { "ok", "fail" } :
        /\ Lookup(call.film_id, "target", 0 - 1, o)
        /\ evaluation' = IF o = "fail" THEN NoEvaluation
                         ELSE TopContributions(profile, FilmMetadata(call.film_id), call.top_n)
        /\ outcome' = "returned"
        /\ pc' = "done"
    /\ UNCHANGED << outer, inputs, locals, result, call_no, prev_result >>

\* Lines 275-304: the lookup of the target film, its score and contributions.
EvaluateTarget ==
    /\ pc = "target"
    /\ \E o \in { "ok", "fail" } :
        /\ Lookup(call.film_id, "target", 0 - 1, o)
        /\ IF o = "fail"
           THEN Raise("FilmMetadataError") /\ evaluation' = evaluation
           ELSE /\ evaluation' = TopContributions(profile, FilmMetadata(call.film_id), call.top_n)
                /\ outcome' = "returned"
                /\ pc' = "done"
    /\ UNCHANGED << outer, inputs, locals, result, call_no, prev_result >>

Next ==
    \/ RecommendBegin
    \/ ResolveByTitle
    \/ ResolveBySlug
    \/ ReferenceLookup
    \/ ProfileStep
    \/ ProfileDone
    \/ PoolStep
    \/ RecommendReturn
    \/ EvaluateBegin
    \/ EvaluateTarget

Spec == Init /\ [][Next]_vars

(***************************************************************************)
(* The repeated call: a second specification, where the same call is made  *)
(* twice against a provider that keeps its answers.                        *)
(***************************************************************************)
InitRepeat ==
    /\ Init
    /\ stable
    /\ call.op = "recommend"
    /\ ~InvalidArguments(call)
    /\ lists.ingested
    /\ pool = POPULAR_FILM_SLUGS
          => call.prompt \in { << >>, << "20", "more" >>, << "more", "like", "The", "Thing" >> }

NextRepeat ==
    \/ RecommendBegin
    \/ ResolveByTitle
    \/ ResolveBySlug
    \/ ReferenceLookup
    \/ ProfileStep
    \/ ProfileDone
    \/ PoolStep
    \/ RecommendReturn
    \/ RecommendAgain

SpecRepeat == InitRepeat /\ [][NextRepeat]_vars

(***************************************************************************)
(* SessionStore and the route /api/recommend                               *)
(***************************************************************************)
\* SessionStore(max_sessions, max_age_s), scaled down: the cap in sessions, the
\* age in ticks of the clock.
max_sessions == 2

max_age_s == 2

\* The bounds of the behaviours explored.
MaxClock == 3

MaxRestarts == 1

\* sorted(...) of slugs, as Python orders strings.
SortedSlugs ==
    << "alien", "amelie", "heat", "oldboy", "parasite", "ran", "seven", "solaris",
       "the-thing", "up" >>

\* json.dumps(sorted(state.recommended_slugs))
DumpSlugs(slugs) == SelectSeq(SortedSlugs, LAMBDA x : x \in slugs)

\* set(json.loads(row[0]))
LoadSlugs(json) == Range(json)

Row(slugs, now, rowid) ==
    [recommended_slugs_json |-> DumpSlugs(slugs), updated_at |-> now, rowid |-> rowid]

StoredIds(table) == { s \in SessionIds : table[s] # NoRow }

\* The rowid INSERT OR REPLACE gives the new row: above every rowid of the table.
NewRowid(table) == Cardinality(StoredIds(table)) + 1

\* Only the order of the rowids matters: they are kept as the ranks 1..n.
Renumber(table) ==
    [s \in SessionIds |->
        IF table[s] = NoRow THEN NoRow
        ELSE [table[s] EXCEPT !.rowid =
                Cardinality({ t \in StoredIds(table) : table[t].rowid <= table[s].rowid })]]

\* _evict_if_needed(now): the table it leaves. Rows older than max_age_s go;
\* above the cap the rows with the smallest updated_at go, rows with equal
\* timestamps in the order of the table scan, the smaller rowid first.
_evict_if_needed(table, now) ==
    LET cutoff == now - max_age_s
        aged == [s \in SessionIds |->
                    IF table[s] # NoRow /\ table[s].updated_at < cutoff
                    THEN NoRow ELSE table[s]]
        count == Cardinality(StoredIds(aged))
        to_delete == count - max_sessions
        first(d, e) ==
            \/ aged[d].updated_at < aged[e].updated_at
            \/ aged[d].updated_at = aged[e].updated_at /\ aged[d].rowid < aged[e].rowid
        oldest == { D \in SUBSET StoredIds(aged) :
                      /\ Cardinality(D) = to_delete
                      /\ \A d \in D : \A e \in StoredIds(aged) \ D : first(d, e) }
    IN  IF count <= max_sessions THEN { Renumber(aged) }
        ELSE { Renumber([s \in SessionIds |-> IF s \in D THEN NoRow ELSE aged[s]]) :
                    D \in oldest }

\* uuid4().hex: an id no session ever had.
FreshIds == { s \in SessionIds : created[s] = 0 /\ sessions[s] = NoRow }

\* req.session_id: none, or an id of the client's choice; overlapping requests
\* are requests of one session.
GivenIds == IF concurrent THEN { "s1" } ELSE { "" } \cup SessionIds

InFlight(r) == requests[r].pc \in { "got", "running" }

\* The frame of a recommend_for_user call that has not run yet, or is gone.
FrameReset ==
    /\ k' = 0
    /\ constraints' = NoConstraints
    /\ exclude' = {}
    /\ search_space' = << >>
    /\ ri' = 0
    /\ resolved' = ""
    /\ similar_meta' = NoMeta
    /\ profile' = EmptyProfile
    /\ wi' = 0
    /\ profile_failures' = 0
    /\ candidates' = << >>
    /\ idx' = 0
    /\ metadata_failures' = 0
    /\ failed_idx' = << >>
    /\ calls' = << >>
    /\ outcome' = "none"
    /\ result' = << >>

\* A request arrives; routes.py:121-122, store.get_or_create(req.session_id).
RouteBegin(r) ==
    /\ requests[r].pc = "idle"
    /\ \A q \in 1..(r - 1) : requests[q].pc # "idle"
    /\ ~concurrent => \A q \in 1..MaxRequests : ~InFlight(q)
    /\ \E given \in GivenIds :
       \E sid \in (IF given = "" THEN FreshIds ELSE { given }) :
          LET found == sessions[sid] # NoRow
              state == IF found THEN LoadSlugs(sessions[sid].recommended_slugs_json) ELSE {}
              epoch == IF found THEN created[sid] ELSE created[sid] + 1
          IN  /\ IF found
                 THEN sessions' = [sessions EXCEPT ![sid].updated_at = clock]
                 ELSE sessions' \in
                        _evict_if_needed([sessions EXCEPT ![sid] = Row({}, clock, NewRowid(sessions))],
                                         clock)
              /\ created' = [created EXCEPT ![sid] = epoch]
              /\ requests' = [requests EXCEPT ![r] =
                    [pc |-> "got", session_id |-> sid, state |-> state, recs |-> << >>,
                     status |-> 0, epoch |-> epoch,
                     after |-> { q \in 1..MaxRequests : requests[q].pc = "sent" }]]
    /\ UNCHANGED << rate, unit, clock, current, restarts, concurrent, inputs, answers, pc, locals, calls,
                    outcome, result, evaluation, call_no, prev_result >>

\* The handler without exclude_slugs=set(state.recommended_slugs).
RouteCompute_NoExclusions(r) ==
    /\ requests[r].pc = "got"
    /\ current = 0
    /\ pc = "idle"
    /\ current' = r
    /\ requests' = [requests EXCEPT ![r].pc = "running"]
    /\ exclude_slugs' = {}
    /\ pc' = "start"
    /\ FrameReset
    /\ UNCHANGED << rate, unit, sessions, clock, created, restarts, concurrent, call, lists, pool, stable,
                    answers, evaluation, call_no, prev_result >>

\* routes.py:124-129: the handler calls recommend_for_user with the session's set.
\* The calls of overlapping requests share nothing, so they are run one at a time.
RouteCompute(r) ==
    /\ requests[r].pc = "got"
    /\ current = 0
    /\ pc = "idle"
    /\ current' = r
    /\ requests' = [requests EXCEPT ![r].pc = "running"]
    /\ exclude_slugs' = requests[r].state
    /\ pc' = "start"
    /\ FrameReset
    /\ UNCHANGED << rate, unit, sessions, clock, created, restarts, concurrent, call, lists, pool, stable,
                    answers, evaluation, call_no, prev_result >>

\* routes.py:131-152: the call returned; merge, store.save, respond.
RouteSave(r) ==
    /\ current = r
    /\ pc = "done"
    /\ LET recs == [i \in 1..Len(result) |-> result[i].film_id]
           merged == requests[r].state \cup Range(recs)
           sid == requests[r].session_id
       IN  /\ sessions' \in
                _evict_if_needed(
                    [sessions EXCEPT ![sid] = Row(merged, clock, NewRowid(sessions))], clock)
           /\ requests' = [requests EXCEPT ![r].pc = "sent", ![r].state = merged,
                                           ![r].recs = recs, ![r].status = 200]
    /\ current' = 0
    /\ pc' = "idle"
    /\ FrameReset
    /\ UNCHANGED << rate, unit, clock, created, restarts, concurrent, inputs, answers, evaluation, call_no,
                    prev_result >>

\* routes.py:153-156: the call raised; 404 for FileNotFoundError, 502 otherwise.
RouteFail(r) ==
    /\ current = r
    /\ pc = "raised"
    /\ requests' = [requests EXCEPT ![r].pc = "sent",
                       ![r].status = IF outcome = "FileNotFoundError" THEN 404 ELSE 502]
    /\ current' = 0
    /\ pc' = "idle"
    /\ FrameReset
    /\ UNCHANGED << rate, unit, sessions, clock, created, restarts, concurrent, inputs, answers,
                    evaluation, call_no, prev_result >>

\* Time passes.
Tick ==
    /\ clock < MaxClock
    /\ current = 0
    /\ clock' = clock + 1
    /\ UNCHANGED << rate, unit, sessions, requests, current, created, restarts, concurrent, inputs,
                    answers, pc, locals, calls, outcome, result, evaluation, call_no,
                    prev_result >>

\* create_app() again on the same database: a new SessionStore, the same table.
AppRestart ==
    /\ restarts < MaxRestarts
    /\ \A q \in 1..MaxRequests : ~InFlight(q)
    /\ restarts' = restarts + 1
    /\ UNCHANGED << rate, unit, sessions, clock, requests, current, created, concurrent, inputs, answers,
                    pc, locals, calls, outcome, result, evaluation, call_no, prev_result >>

\* The calls the requests make: a user with or without stored lists.
InitWeb ==
    /\ call \in [op : { "recommend" }, username : { "alice" }, k : 1..MaxK,
                 prompt : { << >> }, film_id : { "" }, top_n : { 0 }]
    /\ lists \in { [ingested |-> TRUE, watched |-> << "ran" >>, watchlist |-> << >>],
                   [ingested |-> FALSE, watched |-> << >>, watchlist |-> << >>] }
    /\ exclude_slugs = {}
    /\ pool = << "the-thing", "amelie", "heat" >>
    /\ stable = FALSE
    /\ answers = [s \in AllSlugs |-> "unknown"]
    /\ pc = "idle"
    /\ LocalsInit
    /\ calls = << >>
    /\ outcome = "none"
    /\ result = << >>
    /\ evaluation = NoEvaluation
    /\ call_no = 1
    /\ prev_result = << >>
    /\ sessions = [s \in SessionIds |-> NoRow]
    /\ clock = 0
    /\ requests = [r \in 1..MaxRequests |-> NoRequest]
    /\ current = 0
    /\ created = [s \in SessionIds |-> 0]
    /\ restarts = 0
    /\ RateIdle
    /\ UnitIdle

\* Requests one after another, other sessions and the clock in between.
InitSession == InitWeb /\ concurrent = FALSE

NextSession ==
    \/ \E r \in 1..MaxRequests : RouteBegin(r)
    \/ \E r \in 1..MaxRequests : RouteCompute(r)
    \/ \E r \in 1..MaxRequests : RouteSave(r)
    \/ \E r \in 1..MaxRequests : RouteFail(r)
    \/ RecommendBegin
    \/ ProfileStep
    \/ ProfileDone
    \/ PoolStep
    \/ RecommendReturn
    \/ Tick
    \/ AppRestart

SpecSession == InitSession /\ [][NextSession]_vars

\* Requests of one session that overlap.
InitInterleaved == InitWeb /\ concurrent = TRUE

NextInterleaved ==
    \/ \E r \in 1..MaxRequests : RouteBegin(r)
    \/ \E r \in 1..MaxRequests : RouteCompute(r)
    \/ \E r \in 1..MaxRequests : RouteSave(r)
    \/ \E r \in 1..MaxRequests : RouteFail(r)
    \/ RecommendBegin
    \/ ProfileStep
    \/ ProfileDone
    \/ PoolStep
    \/ RecommendReturn

SpecInterleaved == InitInterleaved /\ [][NextInterleaved]_vars

(***************************************************************************)
(* SlidingWindowRateLimiter and RateLimitMiddleware                        *)
(***************************************************************************)
\* The limits and windows of the middleware (environment variables, defaults
\* 60 per 60 s and 5 per 60 s), scaled down: windows in ticks of the clock.
global_limit == 2

global_window_s == 2

ingest_limit == 1

ingest_window_s == 2

LimitOf(key) == IF key = "global" THEN global_limit ELSE ingest_limit

WindowOf(key) == IF key = "global" THEN global_window_s ELSE ingest_window_s

\* while w.hits and w.hits[0] < cutoff: w.hits.popleft()
RECURSIVE DropOld(_, _)
DropOld(hits, cutoff) ==
    IF hits # << >> /\ Head(hits) < cutoff THEN DropOld(Tail(hits), cutoff) ELSE hits

\* allow as it would be if a denied call were recorded as a hit too.
AllowLocked_RecordsDenied(hits, now, limit, window_s) ==
    LET kept == DropOld(hits, now - window_s) IN
    IF Len(kept) >= limit
    THEN [ok |-> FALSE, hits |-> Append(kept, now)]
    ELSE [ok |-> TRUE, hits |-> Append(kept, now)]

\* The body of allow under the lock: (ok, the deque it leaves).
AllowLocked(hits, now, limit, window_s) ==
    LET kept == DropOld(hits, now - window_s) IN
    IF Len(kept) >= limit
    THEN [ok |-> FALSE, hits |-> kept]
    ELSE [ok |-> TRUE, hits |-> Append(kept, now)]

\* A request enters dispatch and allow for the global key, which reads the
\* clock (rate_limit.py:33) before it takes the lock.
Dispatch(d) ==
    /\ dispatches[d].pc = "idle"
    /\ \A q \in 1..(d - 1) : dispatches[q].pc # "idle"
    /\ \E path \in { "/ingest", "/health" } :
          dispatches' = [dispatches EXCEPT ![d] =
              [pc |-> "wait", path |-> path, key |-> "global", now |-> clock, status |-> 0]]
    /\ UNCHANGED << windows, admitted, unit, api, inputs, answers, pc, locals, calls,
                    outcome, result, evaluation, call_no, prev_result >>

\* allow for the ingest key reads the clock (rate_limit.py:33).
AllowEnter(d) ==
    /\ dispatches[d].pc = "enter"
    /\ dispatches' = [dispatches EXCEPT ![d].pc = "wait", ![d].now = clock]
    /\ UNCHANGED << windows, admitted, unit, api, inputs, answers, pc, locals, calls,
                    outcome, result, evaluation, call_no, prev_result >>

\* The request holds the lock (rate_limit.py:35-50), and dispatch goes on:
\* 429, the second key of an ingest request, or call_next.
AllowBody(d) ==
    /\ dispatches[d].pc = "wait"
    /\ LET key == dispatches[d].key
           a == AllowLocked(windows[key], dispatches[d].now, LimitOf(key), WindowOf(key))
       IN  /\ windows' = [windows EXCEPT ![key] = a.hits]
           /\ admitted' = IF a.ok
                          THEN [admitted EXCEPT ![key] = Append(admitted[key], dispatches[d].now)]
                          ELSE admitted
           /\ dispatches' =
                IF ~a.ok
                THEN [dispatches EXCEPT ![d].pc = "sent", ![d].status = 429]
                ELSE IF key = "global" /\ dispatches[d].path = "/ingest"
                THEN [dispatches EXCEPT ![d].pc = "enter", ![d].key = "ingest"]
                ELSE [dispatches EXCEPT ![d].pc = "sent", ![d].status = 200]
    /\ UNCHANGED << unit, api, inputs, answers, pc, locals, calls, outcome, result,
                    evaluation, call_no, prev_result >>

\* The core at rest: no call of recommend_for_user or top_feature_contributions.
CoreIdle ==
    /\ call = [op |-> "recommend", username |-> "alice", k |-> 1, prompt |-> << >>,
               film_id |-> "", top_n |-> 0]
    /\ lists = [ingested |-> TRUE, watched |-> << "ran" >>, watchlist |-> << >>]
    /\ exclude_slugs = {}
    /\ pool = POPULAR_FILM_SLUGS
    /\ stable = FALSE
    /\ answers = [s \in AllSlugs |-> "unknown"]
    /\ pc = "idle"
    /\ LocalsInit
    /\ calls = << >>
    /\ outcome = "none"
    /\ result = << >>
    /\ evaluation = NoEvaluation
    /\ call_no = 1
    /\ prev_result = << >>

InitRate == CoreIdle /\ OuterIdle

NextRate ==
    \/ \E d \in 1..MaxDispatches : Dispatch(d)
    \/ \E d \in 1..MaxDispatches : AllowEnter(d)
    \/ \E d \in 1..MaxDispatches : AllowBody(d)
    \/ Tick

SpecRate == InitRate /\ [][NextRate]_vars

(***************************************************************************)
(* The pure functions of core/recommender.py applied on their own: fn is    *)
(* the function, args its arguments and ret what it returned.              *)
(***************************************************************************)
\* The feature sets and films the functions are applied to.
UnitNames == { "Action", "Drama", "Crime" }

UnitDirectors == { "Mann", "Kurosawa" }

UnitDecades == { 1980, 1990 }

UnitFilms == { "heat", "ran", "seven", "solaris", "oldboy" }

UnitProfiles ==
    { _UserProfile(g, dec, d) :
        g \in SUBSET UnitNames, dec \in SUBSET UnitDecades, d \in SUBSET UnitDirectors }

UnitConstraints ==
    { RefinementConstraints(None, g, ymin, ymax, c, "") :
        g \in { << >>, << "crime" >>, << "Sci-Fi", "drama" >> },
        ymin \in { None, 1995, 1996 },
        ymax \in { None, 1995, 1972 },
        c \in { << >>, << "usa" >>, << "south korea" >> } }

UnitReferences == { NoMeta, FilmMetadata("ran"), FilmMetadata("seven"), FilmMetadata("alien") }

\* The prompts the year parser is applied to: one or two clauses.
UnitYears == { "1980", "1990", "2000" }

UnitClauses ==
    { << a, y1, b, y2 >> : a \in { "between", "from" }, y1 \in UnitYears,
                           b \in { "and", "to" }, y2 \in UnitYears }
    \cup { << a, y >> : a \in { "in", "before", "after", "since", "from" }, y \in UnitYears }
    \cup { << a, b, y >> : a \in { "earlier" }, b \in { "than" }, y \in UnitYears }
    \cup { << a, b, y >> : a \in { "prior" }, b \in { "to" }, y \in UnitYears }
    \cup { << "more" >>, << >> }

UnitPrompts == { c1 \o c2 : c1 \in UnitClauses, c2 \in UnitClauses }

\* One application per behaviour.
Apply(f, a, r) ==
    /\ fn = "none"
    /\ fn' = f
    /\ args' = a
    /\ ret' = r
    /\ UNCHANGED << api, rate, inputs, answers, pc, locals, calls, outcome, result,
                    evaluation, call_no, prev_result >>

ApplyJaccard ==
    \E a \in SUBSET UnitNames, b \in SUBSET UnitNames :
        Apply("_jaccard", << a, b >>, _jaccard(a, b))

ApplySimilarity ==
    \E p \in UnitProfiles, s \in UnitFilms :
        Apply("_similarity_score", << p, FilmMetadata(s) >>,
              _similarity_score(p, FilmMetadata(s)))

ApplyMatches ==
    \E s \in UnitFilms, c \in UnitConstraints, ref \in UnitReferences :
        Apply("_matches_constraints", << FilmMetadata(s), c, ref >>,
              _matches_constraints(FilmMetadata(s), c, ref))

ApplyYearBounds ==
    \E prompt \in UnitPrompts :
        Apply("_parse_year_bounds", << prompt >>, _parse_year_bounds(prompt))

InitUnit == CoreIdle /\ OuterIdle

NextUnit ==
    \/ ApplyJaccard
    \/ ApplySimilarity
    \/ ApplyMatches
    \/ ApplyYearBounds

SpecUnit == InitUnit /\ [][NextUnit]_vars

(***************************************************************************)
(* The long history: recommend_for_user for a user whose watched list is   *)
(* longer than the profile sample.                                         *)
(***************************************************************************)
\* A long list of a few films seen again and again, with two other films
\* behind the sample limit.
CyclicWatched ==
    [i \in 1..MaxWatched |->
        IF i > PROFILE_SAMPLE_LIMIT THEN (IF i % 2 = 1 THEN "amelie" ELSE "parasite")
        ELSE << "ran", "heat", "up", "alien" >>[((i - 1) % 4) + 1]]

\* A long list of different films the metadata source knows nothing about.
DistinctWatched == [i \in 1..MaxWatched |-> "w" \o ToString(i)]

InitHistory ==
    /\ call \in [op : { "recommend" }, username : { "alice" }, k : { 1 },
                 prompt : { << >>, << "20", "like", "Old", "Boy" >> },
                 film_id : { "" }, top_n : { 0 }]
    /\ lists \in [ingested : { TRUE }, watched : { CyclicWatched, DistinctWatched },
                  watchlist : { << >> }]
    /\ exclude_slugs = {}
    /\ pool = << "the-thing", "amelie", "heat" >>
    /\ stable \in BOOLEAN
    /\ lists.watched = DistinctWatched => ~stable
    /\ CallStart
    /\ OuterIdle

NextHistory ==
    \/ RecommendBegin
    \/ ResolveByTitle
    \/ ResolveBySlug
    \/ ProfileStep
    \/ ProfileDone
    \/ PoolStep
    \/ RecommendReturn

SpecHistory == InitHistory /\ [][NextHistory]_vars

(***************************************************************************)
(* Properties                                                              *)
(***************************************************************************)
\* recommend_for_user has returned its list.
Returned == pc = "done" /\ call.op = "recommend"

\* The 0-based position of a film in the candidate pool.
PoolIndexOf(id) == (CHOOSE n \in 1..Len(pool) : pool[n] = id) - 1

\* The 0-based pool positions, in pool order.
PoolIndexes == [n \in 1..Len(pool) |-> n - 1]

\* The item shares a genre, a director or a decade with the profile.
ItemHasOverlap(item) ==
    \/ item.overlaps.genres # << >>
    \/ item.overlaps.directors # << >>
    \/ item.overlaps.decades # << >>

\* The pool index at which the failure count reached the threshold.
ThresholdIndex == failed_idx[METADATA_FAILURE_FAST_FALLBACK_THRESHOLD]

Smaller(a, b) == IF a < b THEN a ELSE b

\* ---------------------------------------------------------------- C1 ----
\* C1: no returned recommendation has a film id that is in the watched list,
\* in the watchlist, or in the exclusion set supplied by the caller.
C1_ExclusionSafety ==
    \A i \in 1..Len(result) :
        result[i].film_id \notin
            Range(lists.watched) \cup Range(lists.watchlist) \cup exclude_slugs

\* A call that took the fast fallback, with an excluded film in the rest of the
\* pool and a film of the rest of the pool among the recommendations.
C1_Witness ==
    /\ Returned
    /\ metadata_failures >= METADATA_FAILURE_FAST_FALLBACK_THRESHOLD
    /\ \E n \in 1..Len(pool) : n - 1 > ThresholdIndex /\ pool[n] \in exclude_slugs
    /\ \E i \in 1..Len(result) :
          result[i].fallback /\ PoolIndexOf(result[i].film_id) > ThresholdIndex

\* ---------------------------------------------------------------- C2 ----
\* The pool entries that are not excluded and pass the filters of the prompt.
PassingEntries ==
    { n \in 1..Len(pool) :
        /\ pool[n] \notin exclude
        /\ _matches_constraints(FilmMetadata(pool[n]), constraints, similar_meta) }

\* C2: the returned list has at most k entries (k the effective limit) and at
\* least min(k, n), n the number of non-excluded pool entries passing the filters.
C2_CountBounds ==
    Returned =>
        /\ Len(result) <= k
        /\ Len(result) >= Smaller(k, Cardinality(PassingEntries))

\* Every lookup succeeded, a genre filter is on, fewer films than k pass, and
\* exactly those are returned.
C2_Witness ==
    /\ Returned
    /\ metadata_failures = 0
    /\ constraints.include_genres # << >>
    /\ profile # EmptyProfile
    /\ Cardinality(PassingEntries) >= 1
    /\ Cardinality(PassingEntries) < k
    /\ Len(result) = Cardinality(PassingEntries)

C4_Ordering ==
    Returned =>
        \A i, j \in 1..Len(result) :
            i < j =>
                \/ result[i].score > result[j].score
                \/ /\ result[i].score = result[j].score
                   /\ PoolIndexOf(result[i].film_id) < PoolIndexOf(result[j].film_id)

\* A non-empty profile, two neighbours of equal positive score, and a film
\* returned ahead of one that comes earlier in the pool.
C4_Witness ==
    /\ Returned
    /\ profile # EmptyProfile
    /\ \E i \in 1..(Len(result) - 1) :
          result[i].score > 0 /\ result[i].score = result[i + 1].score
    /\ \E i, j \in 1..Len(result) :
          i < j /\ PoolIndexOf(result[i].film_id) > PoolIndexOf(result[j].film_id)

\* ---------------------------------------------------------------- C5 ----
\* The candidates collected for pool indexes after i.
CandidatesAfter(i) == SelectSeq(candidates, LAMBDA c : c.idx > i)

\* The non-excluded pool indexes after i, in pool order.
OpenIndexesAfter(i) == SelectSeq(PoolIndexes, LAMBDA j : j > i /\ pool[j + 1] \notin exclude)

\* C5: once the count of failed candidate lookups has reached 6, at pool index i,
\* the provider is not called for any index after i, and every non-excluded pool
\* entry after i is collected as a fallback of score 0, in pool order.
C5_FastFallback ==
    metadata_failures >= METADATA_FAILURE_FAST_FALLBACK_THRESHOLD =>
        /\ Len(failed_idx) = METADATA_FAILURE_FAST_FALLBACK_THRESHOLD
        /\ \A n \in 1..Len(calls) :
              calls[n].phase = "pool" => calls[n].idx <= ThresholdIndex
        /\ Len(CandidatesAfter(ThresholdIndex)) = Len(OpenIndexesAfter(ThresholdIndex))
        /\ \A n \in 1..Len(CandidatesAfter(ThresholdIndex)) :
              LET c == CandidatesAfter(ThresholdIndex)[n] IN
              /\ c.idx = OpenIndexesAfter(ThresholdIndex)[n]
              /\ c.item.film_id = pool[c.idx + 1]
              /\ c.item.fallback
              /\ c.item.score = 0
              /\ c.score = 0

\* The sixth failure came with two or more open entries left in the pool.
C5_Witness ==
    /\ Returned
    /\ metadata_failures >= METADATA_FAILURE_FAST_FALLBACK_THRESHOLD
    /\ Len(CandidatesAfter(ThresholdIndex)) >= 2
    /\ ThresholdIndex + 1 < Len(pool)

\* ---------------------------------------------------------------- C6 ----
\* The arguments are valid and the user has stored lists.
ValidRecommendCall ==
    /\ call.op = "recommend"
    /\ call.username # ""
    /\ call.k >= 1
    /\ lists.ingested

BadArguments ==
    \/ call.username = ""
    \/ call.op = "recommend" /\ call.k < 1
    \/ call.op = "evaluate" /\ call.top_n < 1

StructuralError == BadArguments \/ ~lists.ingested

\* C7: a call with a structural error calls the provider not once, returns
\* nothing, and ends with the validation error (bad arguments) or with the
\* not-found error (no stored lists).
C7_StructuralErrorsFirst ==
    StructuralError =>
        /\ calls = << >>
        /\ result = << >>
        /\ evaluation = NoEvaluation
        /\ pc \in { "start", "raised" }
        /\ pc = "raised" =>
              outcome = (IF BadArguments \/ (call.op = "evaluate" /\ call.film_id = "")
                         THEN "RecommendationError"
                         ELSE "FileNotFoundError")

\* A call with k below 1 was rejected, though its prompt asks for one film and
\* the user has stored lists.
C7_Witness ==
    /\ pc = "raised"
    /\ call.op = "recommend"
    /\ call.username # ""
    /\ call.k < 1
    /\ lists.ingested
    /\ call.prompt = << "1", "more" >>
    /\ outcome = "RecommendationError"

\* ---------------------------------------------------------------- C8 ----
\* The decimal numerals that open a prompt: value and number of digits.
Numeral(w) ==
    CASE w = "0"   -> [value |-> 0, digits |-> 1]
      [] w = "1"   -> [value |-> 1, digits |-> 1]
      [] w = "3"   -> [value |-> 3, digits |-> 1]
      [] w = "20"  -> [value |-> 20, digits |-> 2]
      [] w = "21"  -> [value |-> 21, digits |-> 2]
      [] w = "100" -> [value |-> 100, digits |-> 3]
      [] OTHER     -> [value |-> None, digits |-> 0]

\* The prompt opens with an integer of one or two digits between 1 and 20.
HasLeadingCount(p) ==
    /\ p # << >>
    /\ Numeral(p[1]).digits \in { 1, 2 }
    /\ Numeral(p[1]).value >= 1
    /\ Numeral(p[1]).value <= 20

\* The limit the call has to apply.
Limit == IF HasLeadingCount(call.prompt) THEN Numeral(call.prompt[1]).value ELSE call.k

Collected(j) ==
    /\ pool[j + 1] \notin exclude
    /\ \/ j \in Range(failed_idx)
       \/ /\ metadata_failures >= METADATA_FAILURE_FAST_FALLBACK_THRESHOLD
          /\ j > ThresholdIndex
       \/ _matches_constraints(FilmMetadata(pool[j + 1]), constraints, similar_meta)

CollectedIndexes == SelectSeq(PoolIndexes, Collected)

\* C9: with an empty profile the result is the first k collected candidates in
\* pool order, each with score 0.
C9_EmptyProfile ==
    (Returned /\ profile = EmptyProfile) =>
        /\ Len(result) = Smaller(k, Len(CollectedIndexes))
        /\ \A i \in 1..Len(result) :
              /\ result[i].film_id = pool[CollectedIndexes[i] + 1]
              /\ result[i].score = 0

\* The profile is empty though films were watched; more than k candidates were
\* collected and a pool entry ahead of the last returned one was passed over.
C9_Witness ==
    /\ Returned
    /\ profile = EmptyProfile
    /\ lists.watched # << >>
    /\ Len(candidates) > k
    /\ Len(result) = k
    /\ \E i \in 1..Len(result) : PoolIndexOf(result[i].film_id) # i - 1
    /\ \E i \in 1..Len(result) : ~result[i].fallback

\* --------------------------------------------------------------- C10 ----
\* The collected candidates that overlap with the profile.
OverlapCandidates == { n \in 1..Len(candidates) : ItemHasOverlap(candidates[n].item) }

\* C10: with a non-empty profile no candidate without overlap is returned ahead
\* of one with overlap; if k or more candidates overlap, only such are returned;
\* otherwise all of them are returned, and candidates without overlap fill the
\* list up to k; each of the two groups is in sorted order.
C10_OverlapFirst ==
    (Returned /\ profile # EmptyProfile) =>
        /\ \A i, j \in 1..Len(result) :
              (i < j /\ ItemHasOverlap(result[j])) => ItemHasOverlap(result[i])
        /\ Cardinality(OverlapCandidates) >= k =>
              /\ Len(result) = k
              /\ \A i \in 1..Len(result) : ItemHasOverlap(result[i])
        /\ Cardinality(OverlapCandidates) < k =>
              /\ Len(result) = Smaller(k, Len(candidates))
              /\ \A n \in OverlapCandidates : candidates[n].item \in Range(result)
        /\ \A i \in 1..Len(result) : \E n \in 1..Len(candidates) : candidates[n].item = result[i]
        /\ \A i, j \in 1..Len(result) :
              (i < j /\ ItemHasOverlap(result[i]) = ItemHasOverlap(result[j])) =>
                  \/ result[i].score > result[j].score
                  \/ /\ result[i].score = result[j].score
                     /\ PoolIndexOf(result[i].film_id) < PoolIndexOf(result[j].film_id)

\* Fewer than k candidates overlap; a fallback entry fills the list behind a film
\* with overlap that comes later in the pool.
C10_Witness ==
    /\ Returned
    /\ profile # EmptyProfile
    /\ Cardinality(OverlapCandidates) > 0
    /\ Cardinality(OverlapCandidates) < k
    /\ \E i, j \in 1..Len(result) :
          /\ i < j
          /\ ItemHasOverlap(result[i])
          /\ result[j].fallback
          /\ PoolIndexOf(result[i].film_id) > PoolIndexOf(result[j].film_id)

\* --------------------------------------------------------------- C11 ----
\* Request q was answered before request r arrived, both under one session id.
SameSessionInTurn(q, r) ==
    /\ requests[q].pc = "sent"
    /\ requests[r].pc = "sent"
    /\ q \in requests[r].after
    /\ requests[q].session_id = requests[r].session_id

StoredSet(sid) ==
    IF sessions[sid] = NoRow THEN {} ELSE LoadSlugs(sessions[sid].recommended_slugs_json)

\* C12: under any interleaving of requests of one session, once all requests
\* have completed, every film id returned in a response of the session is in
\* the set stored for it.
C12_NothingLost ==
    (\A r \in 1..MaxRequests : requests[r].pc = "sent") =>
        \A r \in 1..MaxRequests :
            Range(requests[r].recs) \subseteq StoredSet(requests[r].session_id)

\* --------------------------------------------------------------- C13 ----
\* The requests admitted under a key with a timestamp from t to t + window_s.
AdmittedIn(key, t) ==
    { i \in 1..Len(admitted[key]) :
        admitted[key][i] >= t /\ admitted[key][i] <= t + WindowOf(key) }

\* C13: for every key, under any interleaving of callers, no more than limit of
\* the admitted requests have timestamps inside a span of window_s; a request
\* that was not admitted is answered 429, and only admitted ones are passed on.
C13_WindowBound ==
    /\ \A key \in Keys : \A t \in 0..MaxClock :
          Cardinality(AdmittedIn(key, t)) <= LimitOf(key)
    /\ \A d \in 1..MaxDispatches :
          dispatches[d].pc = "sent" => dispatches[d].status \in { 200, 429 }

\* --------------------------------------------------------------- C14 ----
\* C14: _jaccard(a, b) is 0 when both sets are empty and |a & b| / |a | b|
\* otherwise, it is the same with its arguments swapped, and it lies in [0, 1]
\* (0..ScoreScale in the model's scale).
C14_Jaccard ==
    fn = "_jaccard" =>
        LET a == args[1]
            b == args[2]
        IN  /\ (a = {} /\ b = {}) => ret = 0
            /\ ~(a = {} /\ b = {})
                  => ret * Cardinality(a \cup b) = ScoreScale * Cardinality(a \cap b)
            /\ ret = _jaccard(b, a)
            /\ ret >= 0 /\ ret <= ScoreScale

\* The function was applied to two sets that share one of their three names.
C14_Witness ==
    /\ fn = "_jaccard"
    /\ args = << { "Action", "Drama" }, { "Drama", "Crime" } >>
    /\ ret * 3 = ScoreScale

\* --------------------------------------------------------------- C15 ----
\* |a & b| / |a | b| in the model's scale, 0 for two empty sets.
Similarity(a, b) ==
    IF a \cup b = {} THEN 0
    ELSE (ScoreScale * Cardinality(a \cap b)) \div Cardinality(a \cup b)

\* The decades of a film: the decade of its year, nothing without a year.
DecadesOf(film) == IF film.year = None THEN {} ELSE { film.year - (film.year % 10) }

\* C15: the score of _similarity_score is 0.5 times the genre similarity plus
\* 0.3 times the director similarity plus 0.2 times the decade similarity, each
\* recorded contribution is its similarity times its weight, and the score
\* lies in [0, 1] (weights in tenths: 0..10 * ScoreScale).
C15_WeightedScore ==
    fn = "_similarity_score" =>
        LET p == args[1]
            c == args[2]
            genre_sim == Similarity(p.genres, c.genres)
            director_sim == Similarity(p.directors, c.directors)
            decade_sim == Similarity(p.decades, DecadesOf(c))
        IN  /\ ret.score = 5 * genre_sim + 3 * director_sim + 2 * decade_sim
            /\ ret.breakdown.weighted_score = ret.score
            /\ ret.breakdown.genres = genre_sim
            /\ ret.breakdown.directors = director_sim
            /\ ret.breakdown.decades = decade_sim
            /\ ret.breakdown.genres_contribution = 5 * genre_sim
            /\ ret.breakdown.directors_contribution = 3 * director_sim
            /\ ret.breakdown.decades_contribution = 2 * decade_sim
            /\ ret.score >= 0 /\ ret.score <= 10 * ScoreScale

\* A candidate that shares part of the genres, the director and the decade.
C15_Witness ==
    /\ fn = "_similarity_score"
    /\ ret.breakdown.genres > 0 /\ ret.breakdown.genres < ScoreScale
    /\ ret.breakdown.directors > 0
    /\ ret.breakdown.decades > 0
    /\ ret.score < 10 * ScoreScale

\* --------------------------------------------------------------- C16 ----
Evaluated == pc = "done" /\ call.op = "evaluate"

Features == { "decades", "directors", "genres" }

\* The feature names in ascending order.
NameBefore(f, g) ==
    \/ f = "decades" /\ g \in { "directors", "genres" }
    \/ f = "directors" /\ g = "genres"

\* The contribution of a feature to the score of the evaluated film.
ContributionOf(f) ==
    LET b == _similarity_score(profile, FilmMetadata(call.film_id)).breakdown IN
    CASE f = "genres" -> b.genres_contribution
      [] f = "directors" -> b.directors_contribution
      [] f = "decades" -> b.decades_contribution

TargetLookedUp == calls # << >> /\ calls[Len(calls)].phase = "target"

Shares(A, B) ==
    \E x \in A, y \in B : x # "" /\ y # "" /\ Lower(x) = Lower(y)

SameDecade(meta, ref) ==
    meta.year # None /\ ref.year # None /\ meta.year \div 10 = ref.year \div 10

\* C18: _matches_constraints is true iff every active filter passes: genres
\* (active when requested) need a shared normalised genre, the year filter
\* (active when a bound is set) needs a known year inside the bounds set,
\* inclusive, countries work like genres, and the similar-to filter (active
\* with a reference) needs a shared genre, director or decade; a film without
\* genre data or year fails the active filter, and with no active filter every
\* film passes.
C18_Filters ==
    fn = "_matches_constraints" =>
        LET meta == args[1]
            c == args[2]
            ref == args[3]
            genre_active == c.include_genres # << >>
            year_active == c.year_min # None \/ c.year_max # None
            country_active == c.include_countries # << >>
            similar_active == ref # NoMeta
            genre_pass == Shares(meta.genres, Range(c.include_genres))
            year_pass ==
                /\ meta.year # None
                /\ c.year_min # None => meta.year >= c.year_min
                /\ c.year_max # None => meta.year <= c.year_max
            country_pass == Shares(meta.countries, Range(c.include_countries))
            similar_pass ==
                \/ Shares(meta.genres, ref.genres)
                \/ Shares(meta.directors, ref.directors)
                \/ SameDecade(meta, ref)
        IN  /\ ret = TRUE <=>
                  /\ genre_active => genre_pass
                  /\ year_active => year_pass
                  /\ country_active => country_pass
                  /\ similar_active => similar_pass
            /\ (genre_active /\ meta.genres = {}) => ret = FALSE
            /\ (year_active /\ meta.year = None) => ret = FALSE
            /\ (country_active /\ meta.countries = {}) => ret = FALSE
            /\ ~(genre_active \/ year_active \/ country_active \/ similar_active)
                  => ret = TRUE

\* A film that passes four active filters, with its year on both bounds.
C18_Witness ==
    /\ fn = "_matches_constraints"
    /\ ret = TRUE
    /\ args[2].include_genres # << >>
    /\ args[2].year_min = args[1].year
    /\ args[2].year_max = args[1].year
    /\ args[2].include_countries # << >>
    /\ args[3] # NoMeta

\* --------------------------------------------------------------- C19 ----
\* The pool entry at 0-based index j was looked up in the candidate pass and
\* the lookup succeeded.
FetchedOk(j) ==
    /\ \E n \in 1..Len(calls) : calls[n].phase = "pool" /\ calls[n].idx = j
    /\ j \notin Range(failed_idx)

PassesFilter(id) == _matches_constraints(FilmMetadata(id), constraints, similar_meta)

ReturnedIds == { result[i].film_id : i \in 1..Len(result) }

\* C19: a pool entry whose metadata was fetched in the candidate pass and that
\* fails the constraint filter is not in the result, neither scored nor as a
\* fallback; every returned item is a fallback item with score 0 or passes
\* all active constraints.
C19_FilteredDropped ==
    Returned =>
        /\ \A j \in 0..(Len(pool) - 1) :
              (FetchedOk(j) /\ ~PassesFilter(pool[j + 1])) => pool[j + 1] \notin ReturnedIds
        /\ \A i \in 1..Len(result) :
              \/ result[i].fallback /\ result[i].score = 0
              \/ ~result[i].fallback /\ PassesFilter(result[i].film_id)

\* With a constraint active, a fetched film failed the filter and was dropped
\* although the list was not full, next to a scored and a fallback item.
C19_Witness ==
    /\ Returned
    /\ constraints # NoConstraints \/ similar_meta # NoMeta
    /\ \E j \in 0..(Len(pool) - 1) : FetchedOk(j) /\ ~PassesFilter(pool[j + 1])
    /\ Len(result) < k
    /\ \E i \in 1..Len(result) : result[i].fallback
    /\ \E i \in 1..Len(result) : ~result[i].fallback

\* --------------------------------------------------------------- C20 ----
\* The similar-to title was resolved and the lookup of the resolved film succeeded.
ReferenceFound ==
    /\ resolved # ""
    /\ \E n \in 1..Len(calls) : calls[n].phase = "ref" /\ calls[n].slug = resolved
    /\ similar_meta # NoMeta

\* C20: when the similar-to title resolves to a film of watched, watchlist or
\* candidate pool and the lookup of that film succeeds, the film is in the
\* exclusion set from then on and is not in the returned list.
C20_ReferenceExcluded ==
    (call.op = "recommend" /\ ReferenceFound) =>
        /\ resolved \in Range(lists.watched) \cup Range(lists.watchlist) \cup Range(pool)
        /\ similar_meta = FilmMetadata(resolved)
        /\ resolved \in exclude
        /\ \A i \in 1..Len(result) : result[i].film_id # resolved
        /\ \A i \in 1..Len(candidates) : candidates[i].item.film_id # resolved

\* The reference is a pool film that nothing else excludes; the call returned
\* other films.
C20_Witness ==
    /\ Returned
    /\ ReferenceFound
    /\ resolved \in Range(pool)
    /\ resolved \notin Range(lists.watched) \cup Range(lists.watchlist) \cup exclude_slugs
    /\ result # << >>

\* --------------------------------------------------------------- C21 ----
\* What the call computes for the same inputs and provider answers when the
\* prompt carries no similar-to title: the profile ...
RECURSIVE PlainProfile(_, _, _)
PlainProfile(i, failures, prof) ==
    IF i > Len(Sample) \/ failures >= METADATA_FAILURE_FAST_FALLBACK_THRESHOLD THEN prof
    ELSE IF answers[Sample[i]] = "fail" THEN PlainProfile(i + 1, failures + 1, prof)
    ELSE LET meta == FilmMetadata(Sample[i]) IN
         PlainProfile(i + 1, failures,
             _UserProfile(prof.genres \cup meta.genres,
                          IF meta.year # None
                          THEN prof.decades \cup { (meta.year \div 10) * 10 }
                          ELSE prof.decades,
                          prof.directors \cup meta.directors))

PlainExclude == Range(lists.watched) \cup Range(lists.watchlist) \cup exclude_slugs

\* ... the candidates collected from pool index j on ...
RECURSIVE PlainCandidates(_, _, _)
PlainCandidates(j, failures, prof) ==
    IF j >= Len(pool) THEN << >>
    ELSE LET slug == pool[j + 1]
             meta == FilmMetadata(slug)
             s == _similarity_score(prof, meta)
         IN  IF slug \in PlainExclude THEN PlainCandidates(j + 1, failures, prof)
             ELSE IF answers[slug] = "fail"
             THEN << Candidate(j, 0, FALSE, _fallback_recommendation(slug)) >>
                  \o (IF failures + 1 >= METADATA_FAILURE_FAST_FALLBACK_THRESHOLD
                      THEN RemainingFallbacks(pool, j + 1, PlainExclude)
                      ELSE PlainCandidates(j + 1, failures + 1, prof))
             ELSE IF ~_matches_constraints(meta, constraints, NoMeta)
             THEN PlainCandidates(j + 1, failures, prof)
             ELSE << Candidate(j, s.score, _has_any_overlap(s.overlaps),
                               RecommendationItem(slug, meta.year, FALSE, s.score,
                                                  s.breakdown, s.overlaps)) >>
                  \o PlainCandidates(j + 1, failures, prof)

\* ... and the list returned.
PlainResult ==
    LET prof == PlainProfile(1, 0, EmptyProfile) IN
    ChooseRecommendations(PlainCandidates(0, 0, prof), prof, k)

\* The prompt has a similar-to title, and no reference came of it.
ReferenceMissing == constraints.similar_to_title # "" /\ similar_meta = NoMeta

\* C21: with a provider that keeps its answers, a call whose similar-to title
\* was not resolved, or whose resolved film could not be looked up, returns
\* the list of the same call without similar-to title (other constraints,
\* lists, exclusions, pool and k the same).
C21_ReferenceSkipped ==
    (Returned /\ stable /\ ReferenceMissing) => result = PlainResult

\* The title matched a pool film by slug, the lookup of that film failed, and
\* the film is returned as a fallback item next to a scored one.
C21_Witness ==
    /\ Returned
    /\ stable
    /\ ReferenceMissing
    /\ resolved # ""
    /\ \E i \in 1..Len(result) : result[i].film_id = resolved /\ result[i].fallback
    /\ \E i \in 1..Len(result) : ~result[i].fallback

\* --------------------------------------------------------------- C22 ----
\* The lookups made by _build_user_profile so far, in the order made.
ProfileCalls == SelectSeq(calls, LAMBDA c : c.phase = "profile")

\* The positions of ProfileCalls whose lookup failed (the provider keeps its answers).
FailedProfileCalls == { n \in 1..Len(ProfileCalls) : answers[ProfileCalls[n].slug] = "fail" }

\* The metadata the successful lookups returned.
FetchedForProfile ==
    { FilmMetadata(ProfileCalls[n].slug) : n \in (1..Len(ProfileCalls)) \ FailedProfileCalls }

\* The profile loop has ended.
ProfileBuilt == pc \in { "pool", "done" }

\* C22: _build_user_profile looks up only the first 50 watched entries, in list
\* order, makes no lookup after the 6th failure, and the profile is the union
\* of the genres, directors and decades of exactly the films whose lookup
\* succeeded; a film whose lookup failed adds nothing.
C22_ProfileSample ==
    /\ Len(ProfileCalls) <= 50
    /\ \A n \in 1..Len(ProfileCalls) :
          ProfileCalls[n].idx = n - 1 /\ ProfileCalls[n].slug = lists.watched[n]
    /\ profile_failures <= 6
    /\ ProfileBuilt =>
          \/ profile_failures = 6
          \/ Len(ProfileCalls) = Smaller(50, Len(lists.watched))
    /\ stable =>
          /\ profile_failures = Cardinality(FailedProfileCalls)
          /\ profile_failures = 6 => Len(ProfileCalls) \in FailedProfileCalls
          /\ profile.genres = UNION { m.genres : m \in FetchedForProfile }
          /\ profile.directors = UNION { m.directors : m \in FetchedForProfile }
          /\ profile.decades =
                { (m.year \div 10) * 10 : m \in { x \in FetchedForProfile : x.year # None } }

\* A watched list of more than 50 films, one of which fails every lookup while
\* the others succeed: the loop stopped at the 6th failure.
C22_Witness ==
    /\ Len(lists.watched) > 50
    /\ stable
    /\ ProfileBuilt
    /\ Cardinality(FailedProfileCalls) = 6
    /\ Len(ProfileCalls) < 50
    /\ profile # EmptyProfile

\* --------------------------------------------------------------- C23 ----
\* C23: the number of metadata lookups of one recommend_for_user call is
\* bounded by a value that depends on the pool size and the 50-film sample
\* only, whatever the length of the watched list and whatever the prompt: at
\* most one lookup per pool entry for the reference, one for the resolved
\* reference, 50 for the profile and one per pool entry for the candidates.
C23_LookupBound ==
    call.op = "recommend" => Len(calls) <= 50 + (2 * Len(pool)) + 1

\* --------------------------------------------------------------- C24 ----
\* The identifiers the title is resolved against: watched, then watchlist,
\* then the pool, each identifier once.
Space == Dedupe(lists.watched \o lists.watchlist \o pool, {})

Phrase == Lower(constraints.similar_to_title)

\* The positions of the identifiers equal to the phrase, case ignored.
SlugMatches == { i \in 1..Len(Space) : Lower(Space[i]) = Phrase }

\* The positions whose lookup succeeds with a title equal to the phrase.
TitleMatches ==
    { i \in 1..Len(Space) :
        /\ answers[Space[i]] = "ok"
        /\ FilmMetadata(Space[i]).title # ""
        /\ Lower(FilmMetadata(Space[i]).title) = Phrase }

\* The resolution has ended.
Resolved ==
    /\ call.op = "recommend"
    /\ constraints.similar_to_title # ""
    /\ pc \in { "ref", "profile", "pool", "done" }

\* C24: the title is resolved over watched, watchlist and pool in this order
\* of priority: the first identifier equal to the phrase, case ignored; else
\* the first identifier whose lookup succeeds with a title equal to the
\* normalised phrase, failed lookups being skipped; else the slugified phrase
\* if it is an identifier of the search space; else nothing.
C24_ResolutionOrder ==
    (Resolved /\ stable) =>
        /\ search_space = Space
        /\ resolved =
              IF SlugMatches # {} THEN Space[Min(SlugMatches)]
              ELSE IF TitleMatches # {} THEN Space[Min(TitleMatches)]
              ELSE IF _slugify_title(constraints.similar_to_title) \in Range(Space)
                   THEN _slugify_title(constraints.similar_to_title)
              ELSE ""
        /\ SlugMatches # {} => \A n \in 1..Len(calls) : calls[n].phase # "resolve"

\* The lookup of the film with the title failed in the title loop, and the
\* slugified phrase named it.
C24_Witness ==
    /\ Resolved
    /\ stable
    /\ constraints.similar_to_title = "The Thing"
    /\ answers["the-thing"] = "fail"
    /\ resolved = "the-thing"

\* --------------------------------------------------------------- C25 ----
YearValue(w) == CASE w = "1980" -> 1980 [] w = "1990" -> 1990 [] w = "2000" -> 2000

\* The pairs of bounds each pattern gives for its matches in a prompt.
BetweenBounds(p) ==
    { << Smaller(YearValue(p[i + 1]), YearValue(p[i + 3])),
         YearValue(p[i + 1]) + YearValue(p[i + 3])
            - Smaller(YearValue(p[i + 1]), YearValue(p[i + 3])) >> :
        i \in { n \in 1..(Len(p) - 3) :
                  /\ p[n] \in { "between", "from" } /\ p[n + 1] \in UnitYears
                  /\ p[n + 2] \in { "and", "to" } /\ p[n + 3] \in UnitYears } }

\* The years that follow one of the given words (or pairs of words).
YearsAfter(p, words) ==
    { YearValue(p[i + 1]) :
        i \in { n \in 1..(Len(p) - 1) : p[n] \in words /\ p[n + 1] \in UnitYears } }

YearsAfterPair(p, pairs) ==
    { YearValue(p[i + 2]) :
        i \in { n \in 1..(Len(p) - 2) :
                  << p[n], p[n + 1] >> \in pairs /\ p[n + 2] \in UnitYears } }

InBounds(p) == { << y, y >> : y \in YearsAfter(p, { "in" }) }

BeforeBounds(p) ==
    { << None, y - 1 >> :
        y \in YearsAfter(p, { "before" })
              \cup YearsAfterPair(p, { << "earlier", "than" >>, << "prior", "to" >> }) }

AfterBounds(p) == { << y + 1, None >> : y \in YearsAfter(p, { "after" }) }

SinceBounds(p) == { << y, None >> : y \in YearsAfter(p, { "since", "from" }) }

\* C25: the year bounds come from the first pattern, in the order between/from-to,
\* in, before/earlier than/prior to, after, since/from, that matches anywhere
\* in the prompt: (min, max) of the two years, (Y, Y), (absent, Y - 1),
\* (Y + 1, absent), (Y, absent); without a match both are absent; when both
\* are present year_min <= year_max.
C25_YearBounds ==
    fn = "_parse_year_bounds" =>
        LET p == args[1] IN
        /\ ret \in
              IF BetweenBounds(p) # {} THEN BetweenBounds(p)
              ELSE IF InBounds(p) # {} THEN InBounds(p)
              ELSE IF BeforeBounds(p) # {} THEN BeforeBounds(p)
              ELSE IF AfterBounds(p) # {} THEN AfterBounds(p)
              ELSE IF SinceBounds(p) # {} THEN SinceBounds(p)
              ELSE { << None, None >> }
        /\ (ret[1] # None /\ ret[2] # None) => ret[1] <= ret[2]

\* "before 1990 in 1980": the pattern "in Y" is tried first although "before Y"
\* stands in front.
C25_Witness ==
    /\ fn = "_parse_year_bounds"
    /\ args = << << "before", "1990", "in", "1980" >> >>
    /\ ret = << 1980, 1980 >>

\* --------------------------------------------------------------- C26 ----
\* Candidate c comes before candidate d in the order (score descending, pool
\* index ascending).
RanksBefore(c, d) == c.score > d.score \/ (c.score = d.score /\ c.idx < d.idx)

\* The collected candidate of a returned item.
CandidateOf(item) == CHOOSE c \in Range(candidates) : c.item = item

\* C26: the has-overlap flag of a candidate is true iff its score is greater
\* than 0, for every film scored against the profile; so for empty and
\* non-empty profiles alike the returned list is the first k of the collected
\* candidates in the order (score descending, pool index ascending).
C26_OverlapIsPositiveScore ==
    /\ \A i \in 1..Len(candidates) : candidates[i].has <=> candidates[i].score > 0
    /\ \A n \in 1..Len(pool) :
          LET s == _similarity_score(profile, FilmMetadata(pool[n])) IN
          _has_any_overlap(s.overlaps) <=> s.score > 0
    /\ Returned =>
          /\ Len(result) = Smaller(k, Len(candidates))
          /\ \A i \in 1..Len(result) : \E c \in Range(candidates) : c.item = result[i]
          /\ \A i, j \in 1..Len(result) :
                i < j => RanksBefore(CandidateOf(result[i]), CandidateOf(result[j]))
          /\ \A c \in Range(candidates) :
                (\A i \in 1..Len(result) : result[i] # c.item)
                    => \A i \in 1..Len(result) : RanksBefore(CandidateOf(result[i]), c)

\* A non-empty profile, a list with films that overlap and films that do not,
\* and more candidates than were returned.
C26_Witness ==
    /\ Returned
    /\ profile # EmptyProfile
    /\ \E i \in 1..Len(result) : result[i].score > 0
    /\ \E i \in 1..Len(result) : result[i].score = 0
    /\ Len(candidates) > Len(result)

\* --------------------------------------------------------------- C27 ----
\* C27: no step of recommend_for_user changes the exclude_slugs set the caller
\* passed in or the candidate pool; the watched and watchlist films and the
\* resolved reference are added to the call's own set only, which holds the
\* caller's films throughout.
C27_InputsUntouched ==
    [][call.op = "recommend" =>
          /\ exclude_slugs' = exclude_slugs
          /\ pool' = pool
          /\ pc' \in { "ref", "resolve", "profile", "pool", "done" }
                => /\ exclude_slugs \subseteq exclude'
                   /\ Range(lists.watched) \cup Range(lists.watchlist) \subseteq exclude']_vars

\* The call's own set holds a watched film and the resolved reference, the
\* caller's set holds neither.
C27_Witness ==
    /\ Returned
    /\ exclude_slugs # {}
    /\ resolved # ""
    /\ resolved \in exclude \ exclude_slugs
    /\ lists.watched # << >>
    /\ Range(lists.watched) \cap exclude_slugs = {}
    /\ Range(lists.watched) \subseteq exclude

\* --------------------------------------------------------------- C28 ----
\* The pool names no film twice.
PoolIsDuplicateFree == \A m, n \in 1..Len(pool) : pool[m] = pool[n] => m = n

\* C28: with a pool without duplicates, the returned list names no film twice
\* and only films of the pool, also when the failure threshold is reached in
\* the middle of the pool and the rest is added as fallbacks.
C28_NoDuplicates ==
    (PoolIsDuplicateFree /\ call.op = "recommend") =>
        /\ \A i, j \in 1..Len(candidates) :
              candidates[i].item.film_id = candidates[j].item.film_id => i = j
        /\ \A i \in 1..Len(candidates) :
              /\ candidates[i].idx \in 0..(Len(pool) - 1)
              /\ candidates[i].item.film_id = pool[candidates[i].idx + 1]
        /\ \A i, j \in 1..Len(result) : result[i].film_id = result[j].film_id => i = j
        /\ \A i \in 1..Len(result) : \E n \in 1..Len(pool) : pool[n] = result[i].film_id

\* The sixth failure came before the end of the pool, and the list holds the
\* six failed films and a film from behind them.
C28_Witness ==
    /\ Returned
    /\ Len(failed_idx) = 6
    /\ failed_idx[6] < Len(pool) - 1
    /\ Len(result) > 6
    /\ \E i \in 1..Len(result) : \E n \in (failed_idx[6] + 2)..Len(pool) :
          result[i].film_id = pool[n]

\* --------------------------------------------------------------- C29 ----
\* Request r completes get_or_create, or save, in this step.
GetOrCreateDone(r) == requests[r].pc = "idle" /\ requests'[r].pc = "got"

SaveDone(r) == requests[r].pc = "running" /\ requests'[r].pc = "sent" /\ requests'[r].status = 200

AllowReturns(d) == dispatches[d].pc = "wait" /\ dispatches'[d].pc # "wait"

\* The call of request d is denied in this step.
AllowDenies(d) == AllowReturns(d) /\ dispatches'[d].status = 429

====
